---- MODULE Spec2Model ----
(***************************************************************************)
(* Inventory / sales tracker (dashboardlucas): the batch price allocator,  *)
(* the batch materializer (sendBatchToStock), the cascade delete of a      *)
(* batch (deleteBatchRecord) and the batch reconciler                      *)
(* (reconcileItemBatchMap), modelled from Dashboard.tsx and itemService.ts.*)
(*                                                                         *)
(* JavaScript numbers are IEEE-754 doubles.  Money amounts that the code   *)
(* keeps integral (parseMoneyInput, Math.round) are TLA+ integers; the     *)
(* values the allocator computes with "/" and "*" are modelled as doubles  *)
(* with a 53-bit significand and round-to-nearest-even, so that the        *)
(* rounding of every single operation is part of the model.                *)
(***************************************************************************)
EXTENDS Integers, Sequences, FiniteSets, TLC

Null == "undefined"

(***************************************************************************)
(* IEEE-754 double arithmetic.  A double is [neg, m, e]: m is the 53-bit   *)
(* significand, written in limbs of LimbBits bits (most significant limb   *)
(* first, no leading zero limb), and the value is (-1)^neg * m * 2^e; zero *)
(* has the empty significand.  Every operation computes the exact result   *)
(* and rounds it once to 53 bits, ties to even, as the hardware does.      *)
(* The exponent range (overflow, subnormals) is not modelled: amounts stay *)
(* far from both.  Integers that enter an operation are below 2^20.        *)
(***************************************************************************)
MantBits == 53

LimbBits == 10

Radix == 2^LimbBits

FZero == [neg |-> FALSE, m |-> <<>>, e |-> 0]

ZeroLimbs(k) == [i \in 1..k |-> 0]

RECURSIVE NatLimbs(_)
NatLimbs(n) == IF n = 0 THEN <<>> ELSE Append(NatLimbs(n \div Radix), n % Radix)

RECURSIVE LimbsNat(_)
LimbsNat(l) == IF l = <<>> THEN 0 ELSE Radix * LimbsNat(SubSeq(l, 1, Len(l) - 1)) + l[Len(l)]

RECURSIVE StripL(_)
StripL(l) == IF l # <<>> /\ Head(l) = 0 THEN StripL(Tail(l)) ELSE l

PadTo(l, n) == ZeroLimbs(n - Len(l)) \o l

BitLenNat(n) == CHOOSE k \in 0..30 : n < 2^k /\ (k = 0 \/ n >= 2^(k - 1))

BigBitLen(l) == IF l = <<>> THEN 0 ELSE LimbBits * (Len(l) - 1) + BitLenNat(l[1])

RECURSIVE BigInc(_)
BigInc(l) ==
    IF l = <<>> THEN <<1>>
    ELSE IF l[Len(l)] < Radix - 1 THEN [l EXCEPT ![Len(l)] = @ + 1]
    ELSE Append(BigInc(SubSeq(l, 1, Len(l) - 1)), 0)

\* a + b on limb strings of equal length, from the least significant limb.
RECURSIVE BigAddFrom(_, _, _, _, _)
BigAddFrom(a, b, i, carry, acc) ==
    IF i = 0 THEN (IF carry = 1 THEN <<1>> \o acc ELSE acc)
    ELSE LET v == a[i] + b[i] + carry
         IN  BigAddFrom(a, b, i - 1, v \div Radix, <<v % Radix>> \o acc)

BigAdd(a, b) ==
    LET n == IF Len(a) > Len(b) THEN Len(a) ELSE Len(b)
    IN  BigAddFrom(PadTo(a, n), PadTo(b, n), n, 0, <<>>)

\* a - b on limb strings of equal length, a >= b.
RECURSIVE BigSubFrom(_, _, _, _, _)
BigSubFrom(a, b, i, borrow, acc) ==
    IF i = 0 THEN acc
    ELSE LET v == a[i] - b[i] - borrow
         IN  IF v < 0 THEN BigSubFrom(a, b, i - 1, 1, <<v + Radix>> \o acc)
             ELSE BigSubFrom(a, b, i - 1, 0, <<v>> \o acc)

BigSub(a, b) ==
    LET n == IF Len(a) > Len(b) THEN Len(a) ELSE Len(b)
    IN  StripL(BigSubFrom(PadTo(a, n), PadTo(b, n), n, 0, <<>>))

RECURSIVE BigLessFrom(_, _, _)
BigLessFrom(a, b, i) ==
    IF i > Len(a) THEN FALSE
    ELSE IF a[i] # b[i] THEN a[i] < b[i]
    ELSE BigLessFrom(a, b, i + 1)

BigLess(a, b) ==
    LET n == IF Len(a) > Len(b) THEN Len(a) ELSE Len(b)
    IN  BigLessFrom(PadTo(a, n), PadTo(b, n), 1)

\* l * k for a natural k < 2^20, from the least significant limb.
RECURSIVE BigMulFrom(_, _, _, _, _)
BigMulFrom(l, k, i, carry, acc) ==
    IF i = 0 THEN NatLimbs(carry) \o acc
    ELSE LET v == l[i] * k + carry
         IN  BigMulFrom(l, k, i - 1, v \div Radix, <<v % Radix>> \o acc)

BigMulSmall(l, k) == StripL(BigMulFrom(l, k, Len(l), 0, <<>>))

\* l divided by a natural k < 2^20, from the most significant limb.
RECURSIVE BigDivFrom(_, _, _, _, _)
BigDivFrom(l, k, i, r, acc) ==
    IF i > Len(l) THEN [q |-> StripL(acc), r |-> r]
    ELSE LET v == r * Radix + l[i]
         IN  BigDivFrom(l, k, i + 1, v % k, Append(acc, v \div k))

BigDivSmall(l, k) == BigDivFrom(l, k, 1, 0, <<>>)

ShiftLeft(l, s) == BigMulSmall(l, 2^(s % LimbBits)) \o ZeroLimbs(s \div LimbBits)

\* d is the division of the limbs kept by what is left of the shift; q whole
\* limbs of l were dropped before it.
ShiftRightBy(l, q, d) ==
    [q    |-> d.q,
     lost |-> d.r # 0 \/ \E i \in 1..Len(l) : i > Len(l) - q /\ l[i] # 0]

\* floor(l / 2^s), and whether a nonzero remainder was lost.
ShiftRight(l, s) ==
    ShiftRightBy(l, s \div LimbBits,
        BigDivSmall(IF s \div LimbBits >= Len(l) THEN <<>>
                    ELSE SubSeq(l, 1, Len(l) - s \div LimbBits),
                    2^(s % LimbBits)))

\* Round the exact value l * 2^e (plus a nonzero tail below the last bit
\* when sticky) to 53 significant bits, ties to even.
\* the rounded significand r of a value that had d bits too many
RoundCarried(neg, r, e, d) ==
    IF BigBitLen(r) > MantBits
    THEN [neg |-> neg, m |-> BigDivSmall(r, 2).q, e |-> e + d + 1]
    ELSE [neg |-> neg, m |-> r, e |-> e + d]

\* keep: the 53 bits kept; guard: the first bit dropped; rest: whether a
\* nonzero bit follows it
RoundKept(neg, keep, guard, rest, e, d) ==
    RoundCarried(neg,
                 IF guard = 1 /\ (rest \/ keep[Len(keep)] % 2 = 1) THEN BigInc(keep)
                 ELSE keep,
                 e, d)

\* sh: the significand shifted right by d - 1 bits
RoundShifted(neg, sh, e, d, sticky) ==
    RoundKept(neg, BigDivSmall(sh.q, 2).q, sh.q[Len(sh.q)] % 2, sticky \/ sh.lost, e, d)

\* s has no leading zero limb and n bits
RoundBits(neg, s, n, e, sticky) ==
    IF n = 0 THEN FZero
    ELSE IF n <= MantBits
    THEN [neg |-> neg, m |-> ShiftLeft(s, MantBits - n), e |-> e - (MantBits - n)]
    ELSE RoundShifted(neg, ShiftRight(s, n - MantBits - 1), e, n - MantBits, sticky)

RoundStripped(neg, s, e, sticky) == RoundBits(neg, s, BigBitLen(s), e, sticky)

Round53(neg, l, e, sticky) == RoundStripped(neg, StripL(l), e, sticky)

FromInt(n) == IF n < 0 THEN Round53(TRUE, NatLimbs(-n), 0, FALSE)
              ELSE Round53(FALSE, NatLimbs(n), 0, FALSE)

FNeg(x) == IF x.m = <<>> THEN x ELSE [x EXCEPT !.neg = ~x.neg]

\* Long division r / b: k more quotient limbs.
RECURSIVE DivLimbs(_, _, _, _)
DivLimbs(r, b, k, acc) ==
    IF k = 0 THEN [q |-> acc, r |-> r]
    ELSE DivLimbs((r * Radix) % b, b, k - 1, Append(acc, (r * Radix) \div b))

\* a / b for integers a >= 0, b > 0 (both exact as doubles), correctly rounded.
\* d: the quotient with f limbs after the point, and the remainder
FDivRounded(d, f) == Round53(FALSE, d.q, -(f * LimbBits), d.r # 0)

FDivLimbs(a, b, f) == FDivRounded(DivLimbs(a % b, b, f, NatLimbs(a \div b)), f)

FDivInt(a, b) ==
    IF a = 0 THEN FZero
    ELSE FDivLimbs(a, b, (MantBits + 2 + BitLenNat(b)) \div LimbBits + 1)

\* x * k for a double x and an integer k (exact as a double).
FMulInt(x, k) ==
    IF x.m = <<>> \/ k = 0 THEN FZero
    ELSE Round53(x.neg # (k < 0), BigMulSmall(x.m, IF k < 0 THEN -k ELSE k), x.e, FALSE)

\* xm, ym: the significands of x and y at the common exponent e
FAddAligned(x, y, xm, ym, e) ==
    Round53(IF x.neg = y.neg \/ ~BigLess(xm, ym) THEN x.neg ELSE y.neg,
            IF x.neg = y.neg THEN BigAdd(xm, ym)
            ELSE IF BigLess(xm, ym) THEN BigSub(ym, xm)
            ELSE BigSub(xm, ym),
            e, FALSE)

FAddAt(x, y, e) == FAddAligned(x, y, ShiftLeft(x.m, x.e - e), ShiftLeft(y.m, y.e - e), e)

FAdd(x, y) ==
    IF x.m = <<>> THEN y
    ELSE IF y.m = <<>> THEN x
    ELSE FAddAt(x, y, IF x.e < y.e THEN x.e ELSE y.e)

FSub(x, y) == FAdd(x, FNeg(y))

\* Math.round of a double x >= 0: floor(x + 1/2), computed exactly.
FRound(x) ==
    IF x.m = <<>> THEN 0
    ELSE IF x.e >= 0 THEN LimbsNat(ShiftLeft(x.m, x.e))
    ELSE (LimbsNat(ShiftRight(x.m, -x.e - 1).q) + 1) \div 2

(***************************************************************************)
(* Text.  A string is a sequence of characters, so that trimming, case     *)
(* folding and whitespace collapsing act on it as String.prototype's       *)
(* methods do.                                                             *)
(***************************************************************************)
IsSpace(c) == c \in {" ", "\t"}

RECURSIVE TrimStart(_)
TrimStart(s) == IF s # <<>> /\ IsSpace(Head(s)) THEN TrimStart(Tail(s)) ELSE s

RECURSIVE TrimEnd(_)
TrimEnd(s) == IF s # <<>> /\ IsSpace(s[Len(s)]) THEN TrimEnd(SubSeq(s, 1, Len(s) - 1)) ELSE s

Trim(s) == TrimEnd(TrimStart(s))

LowerChar(c) == IF c = "A" THEN "a" ELSE IF c = "B" THEN "b" ELSE c

ToLowerCase(s) == [i \in 1..Len(s) |-> LowerChar(s[i])]

\* replace(/\s+/g, ' '): every maximal run of whitespace becomes one space.
RECURSIVE CollapseSpaces(_)
CollapseSpaces(s) ==
    IF s = <<>> THEN <<>>
    ELSE IF IsSpace(Head(s))
    THEN <<" ">> \o CollapseSpaces(TrimStart(s))
    ELSE <<Head(s)>> \o CollapseSpaces(Tail(s))

normalizeText(value) == CollapseSpaces(ToLowerCase(Trim(value)))

(***************************************************************************)
(* Input domains and bounds.                                               *)
(***************************************************************************)
MaxBatchItems == 2

\* What the user can type as a product name (the last one is blank).
NameInputs == { <<"a">>, <<" ", "A">>, <<"b">>, <<" ">> }

\* Quantity field after Number(): 0 stands for an empty or invalid field.
QtyInputs == {0, 2}

\* Money fields after parseMoneyInput: 0 stands for an empty field.
ListedPriceInputs == {0, 3, 50000}

SalePriceInputs == {0, 2}

TotalPaidInputs == {0, 80000}

Dispositions == {"sell", "keep"}

VARIABLES
    db,              \* the store's items table: row id -> row
    dbBatches,       \* the store's batch records, newest first
    schema,          \* the optional columns the items table has
    nextId,          \* the next id the store hands out
    now,             \* the clock, in whole time units
    lsHistory,       \* localStorage 'pricing_batch_history_v1': Null or an array
    lsItems,         \* localStorage 'items_v1': Null or an array
    items,           \* Dashboard state items: the session's inventory snapshot
    itemBatchMap,    \* Dashboard state itemBatchMap: item id -> batch code
    activeTab,       \* Dashboard state activeTab; the board is mounted on 'pricing'
    history,         \* BulkPricingBoard state history (BatchRecord[])
    batchItems,      \* Dashboard state batchItems: the working batch (PricingItem[])
    batchTotalPaid,  \* Dashboard state batchTotalPaid
    alert,           \* the message of the last handler's alert(), Null when it showed none
    parked           \* a second browser's session while the first is in front, if there is one

storeVars == <<db, dbBatches, schema, nextId, now>>

localVars == <<lsHistory, lsItems>>

sessionVars == <<items, itemBatchMap, activeTab, history>>

vars == <<storeVars, localVars, sessionVars, batchItems, batchTotalPaid, alert, parked>>

\* There is no second session.
NoSession == <<>>

(***************************************************************************)
(* Price allocator: the derived values BulkPricingBoard computes on every  *)
(* render from batchItems and totalPaid.                                   *)
(***************************************************************************)
normalizedItems ==
    [i \in 1..Len(batchItems) |->
        [batchItems[i] EXCEPT !.disposition = IF @ = Null THEN "sell" ELSE @]]

\* reduce((acc, x) => acc + x, 0) on integers
RECURSIVE SumInts(_)
SumInts(xs) ==
    IF xs = <<>> THEN 0 ELSE SumInts(SubSeq(xs, 1, Len(xs) - 1)) + xs[Len(xs)]

\* reduce((acc, x) => acc + x, 0) on doubles, added left to right
RECURSIVE SumDoubles(_)
SumDoubles(xs) ==
    IF xs = <<>> THEN FZero ELSE FAdd(SumDoubles(SubSeq(xs, 1, Len(xs) - 1)), xs[Len(xs)])

IsSell(item) == item.disposition = "sell"

IsKeep(item) == item.disposition = "keep"

listedSubtotal_NoQuantity ==
    SumInts([i \in 1..Len(normalizedItems) |-> normalizedItems[i].listedUnitPrice])

listedSubtotal ==
    SumInts([i \in 1..Len(normalizedItems) |->
                normalizedItems[i].listedUnitPrice * normalizedItems[i].quantity])

allocationFactor_DefaultZero ==
    IF listedSubtotal > 0 THEN FDivInt(batchTotalPaid, listedSubtotal) ELSE FZero

allocationFactor ==
    IF listedSubtotal > 0 THEN FDivInt(batchTotalPaid, listedSubtotal) ELSE FromInt(1)

totalSellRevenue ==
    LET sell == SelectSeq(normalizedItems, IsSell)
    IN  SumInts([i \in 1..Len(sell) |-> sell[i].unitSalePrice * sell[i].quantity])

\* item.listedUnitPrice * allocationFactor
adjustedUnitCost(item) == FMulInt(allocationFactor, item.listedUnitPrice)

\* reduce over items of (item.listedUnitPrice * allocationFactor) * item.quantity
AdjustedCostSum(lineItems, factor) ==
    SumDoubles([i \in 1..Len(lineItems) |->
                   FMulInt(FMulInt(factor, lineItems[i].listedUnitPrice), lineItems[i].quantity)])

retainedValue == AdjustedCostSum(SelectSeq(normalizedItems, IsKeep), allocationFactor)

sellCostAdjusted == AdjustedCostSum(SelectSeq(normalizedItems, IsSell), allocationFactor)

expectedProfit_AllCosts ==
    FSub(FromInt(totalSellRevenue), FAdd(sellCostAdjusted, retainedValue))

expectedProfit == FSub(FromInt(totalSellRevenue), sellCostAdjusted)

effectiveCostToRecover ==
    LET d == FSub(FromInt(batchTotalPaid), retainedValue)
    IN  IF d.neg THEN FZero ELSE d

totalEconomicValue == FAdd(expectedProfit, retainedValue)

(***************************************************************************)
(* The working batch's editors.                                            *)
(***************************************************************************)
AlertAddName == "Completa nombre y precio de lista unitario."

AlertAddSale == "Si es para vender, completa la venta unitaria."

addItem(newName, newQty, newListedPrice, newSalePrice, newDisposition) ==
    LET quantity == IF newQty >= 1 THEN newQty ELSE 1
    IN  /\ activeTab = "pricing"
        /\ Len(batchItems) < MaxBatchItems
        /\ UNCHANGED <<storeVars, parked, localVars, sessionVars, batchTotalPaid>>
        /\ IF Trim(newName) = <<>> \/ newListedPrice <= 0
           THEN alert' = AlertAddName /\ UNCHANGED batchItems
           ELSE IF newDisposition = "sell" /\ newSalePrice <= 0
           THEN alert' = AlertAddSale /\ UNCHANGED batchItems
           ELSE /\ alert' = Null
                /\ batchItems' = Append(batchItems,
                       [productName     |-> Trim(newName),
                        quantity        |-> quantity,
                        listedUnitPrice |-> newListedPrice,
                        unitSalePrice   |-> IF newDisposition = "sell" THEN newSalePrice ELSE 0,
                        condition       |-> "nuevo",
                        disposition     |-> newDisposition])

setTotalPaid(value) ==
    /\ activeTab = "pricing"
    /\ batchTotalPaid' = value
    /\ alert' = Null
    /\ UNCHANGED <<storeVars, parked, localVars, sessionVars, batchItems>>

setDisposition(i, disposition) ==
    /\ activeTab = "pricing"
    /\ batchItems' = [batchItems EXCEPT ![i].disposition = disposition]
    /\ alert' = Null
    /\ UNCHANGED <<storeVars, parked, localVars, sessionVars, batchTotalPaid>>

\* The sale price input is disabled while the line item is kept.
setUnitSalePrice(i, unitSalePrice) ==
    /\ activeTab = "pricing"
    /\ normalizedItems[i].disposition # "keep"
    /\ batchItems' = [batchItems EXCEPT ![i].unitSalePrice = unitSalePrice]
    /\ alert' = Null
    /\ UNCHANGED <<storeVars, parked, localVars, sessionVars, batchTotalPaid>>

removeBatchItem(i) ==
    /\ activeTab = "pricing"
    /\ batchItems' = [j \in 1..(Len(batchItems) - 1) |->
                         IF j < i THEN batchItems[j] ELSE batchItems[j + 1]]
    /\ alert' = Null
    /\ UNCHANGED <<storeVars, parked, localVars, sessionVars, batchTotalPaid>>

(***************************************************************************)
(* The item store (itemService over the items table).  A row has every     *)
(* column of the table; a payload is a function from the columns a call    *)
(* sends to their values; a partial item is a record of Item fields.       *)
(***************************************************************************)
\* An optional number that is not there (salePrice, saleDate, sale_price, sale_date).
NoNumber == -1

OptionalColumns == {"item_condition", "batch_ref"}

ItemFields ==
    <<"productName", "purchasePrice", "salePrice", "quantity", "date",
      "saleDate", "status", "condition", "batchRef">>

ItemColumns ==
    <<"product_name", "purchase_price", "sale_price", "quantity", "date",
      "sale_date", "status", "item_condition", "batch_ref">>

\* item.f !== undefined
IsDefined(item, f) ==
    /\ f \in DOMAIN item
    /\ CASE f \in {"purchasePrice", "salePrice", "quantity", "date", "saleDate"} -> item[f] # NoNumber
         [] f \in {"status", "condition", "batchRef"} -> item[f] # Null
         [] OTHER -> TRUE

mapToDb(item) ==
    LET sent == { i \in 1..Len(ItemFields) : IsDefined(item, ItemFields[i]) }
    IN  [c \in { ItemColumns[i] : i \in sent } |->
            item[ItemFields[CHOOSE i \in sent : ItemColumns[i] = c]]]

mapFromDb(dbItem) ==
    [id            |-> dbItem.id,
     productName   |-> dbItem.product_name,
     purchasePrice |-> dbItem.purchase_price,
     salePrice     |-> IF dbItem.sale_price = NoNumber \/ dbItem.sale_price = 0
                       THEN NoNumber ELSE dbItem.sale_price,
     quantity      |-> dbItem.quantity,
     date          |-> IF dbItem.date = NoNumber THEN dbItem.created_at ELSE dbItem.date,
     saleDate      |-> dbItem.sale_date,
     status        |-> dbItem.status,
     condition     |-> IF dbItem.item_condition = Null THEN "nuevo" ELSE dbItem.item_condition,
     batchRef      |-> IF dbItem.batch_ref = Null \/ dbItem.batch_ref = "" THEN Null
                       ELSE dbItem.batch_ref]

withoutColumns(payload, columns) == [c \in (DOMAIN payload) \ columns |-> payload[c]]

\* The store refuses a payload that names a column the table does not have;
\* the error names such a column (Null: no error).  createItem and updateItem
\* end the same way whichever of two missing columns is named.
MissingColumnError(payload, columns) ==
    LET missing == (DOMAIN payload \cap OptionalColumns) \ columns
    IN  IF missing = {} THEN Null ELSE CHOOSE c \in missing : TRUE

hasMissingColumn(error, column) == error # Null /\ error = column

\* The payload createItem and updateItem end up sending after their
\* backward-compatibility retries, and the error of the last attempt.
WithRetries(dbItem, columns) ==
    LET e1     == MissingColumnError(dbItem, columns)
        retry1 == hasMissingColumn(e1, "item_condition") /\ "item_condition" \in DOMAIN dbItem
        p2     == IF retry1 THEN withoutColumns(dbItem, {"item_condition"}) ELSE dbItem
        e2     == IF retry1 THEN MissingColumnError(p2, columns) ELSE e1
        retry2 == hasMissingColumn(e2, "batch_ref") /\ "batch_ref" \in DOMAIN dbItem
        p3     == IF retry2 THEN withoutColumns(dbItem, {"batch_ref"}) ELSE p2
        e3     == IF retry2 THEN MissingColumnError(p3, columns) ELSE e2
    IN  [error |-> e3, payload |-> p3]

Column(payload, c, default) == IF c \in DOMAIN payload THEN payload[c] ELSE default

\* insert: the row the table stores for a payload, with the column defaults
InsertedRow(payload, id, clock, columns) ==
    [id             |-> id,
     created_at     |-> clock,
     date           |-> Column(payload, "date", clock),
     product_name   |-> payload["product_name"],
     purchase_price |-> Column(payload, "purchase_price", 0),
     sale_price     |-> Column(payload, "sale_price", NoNumber),
     quantity       |-> Column(payload, "quantity", 1),
     sale_date      |-> Column(payload, "sale_date", NoNumber),
     status         |-> Column(payload, "status", "in_stock"),
     item_condition |-> IF "item_condition" \in columns
                        THEN Column(payload, "item_condition", "nuevo") ELSE Null,
     batch_ref      |-> Column(payload, "batch_ref", Null)]

\* update ... eq('id', id): the columns of the payload replace the row's
UpdatedRow(row, payload) ==
    [c \in DOMAIN row |-> IF c \in DOMAIN payload THEN payload[c] ELSE row[c]]

\* createItem: [ok, db, item]; ok is FALSE when the last attempt failed
createItem(table, item, id, clock, columns) ==
    LET sent == WithRetries(mapToDb(item), columns)
        row  == InsertedRow(sent.payload, id, clock, columns)
    IN  IF sent.error # Null \/ "product_name" \notin DOMAIN sent.payload
        THEN [ok |-> FALSE, db |-> table, item |-> Null]
        ELSE [ok |-> TRUE, db |-> (id :> row) @@ table, item |-> mapFromDb(row)]

\* updateItem: single() fails when no row has the id
updateItem(table, id, updates, columns) ==
    LET sent == WithRetries(mapToDb(updates), columns)
    IN  IF sent.error # Null \/ id \notin DOMAIN table
        THEN [ok |-> FALSE, db |-> table, item |-> Null]
        ELSE LET row == UpdatedRow(table[id], sent.payload)
             IN  [ok |-> TRUE, db |-> [table EXCEPT ![id] = row], item |-> mapFromDb(row)]

\* deleteItem: deleting an id that has no row is not an error
deleteItem(table, id) == [r \in (DOMAIN table) \ {id} |-> table[r]]

\* The orders in which getItems may return the rows with the given ids: by
\* date, newest first, rows of the same date in any order.
RECURSIVE DateOrdersOf(_, _)
DateOrdersOf(table, ids) ==
    IF ids = {} THEN { <<>> }
    ELSE LET newest == { id \in ids : \A other \in ids : table[id].date >= table[other].date }
         IN  UNION { { <<id>> \o rest : rest \in DateOrdersOf(table, ids \ {id}) } :
                       id \in newest }

DateOrders(table) == DateOrdersOf(table, DOMAIN table)

getItems(table, order) == [i \in DOMAIN order |-> mapFromDb(table[order[i]])]

(***************************************************************************)
(* The batch store (itemService.getBatches, createBatch, deleteBatch).     *)
(***************************************************************************)
\* createBatch: the store gives the record an id and keeps it
createBatch(batches, record, id) ==
    LET saved == [id |-> id] @@ record
    IN  [batch |-> saved, dbBatches |-> <<saved>> \o batches]

getBatches(batches) == batches

deleteBatch(batches, id) == SelectSeq(batches, LAMBDA record : record.id # id)

(***************************************************************************)
(* localStorage: a key holds nothing (<<>>) or one JSON value (<<value>>). *)
(***************************************************************************)
NoEntry == <<>>

Stored(value) == <<value>>

(***************************************************************************)
(* Batch reconciler.                                                       *)
(***************************************************************************)
MapGet(map, id) == IF id \in DOMAIN map THEN map[id] ELSE Null

Abs(x) == IF x < 0 THEN -x ELSE x

\* new Date(record.createdAt || fallback).getTime()
RecordTime(record, fallback) ==
    IF record.createdAt = NoNumber \/ record.createdAt = 0 THEN fallback ELSE record.createdAt

SortNewestFirst_AsStored(records) == records

\* sort((a, b) => time(b) - time(a)): newest first, equal times keep their order
RECURSIVE SortNewestFirst(_)
SortNewestFirst(records) ==
    IF records = <<>> THEN <<>>
    ELSE LET rest == SortNewestFirst(SubSeq(records, 1, Len(records) - 1))
             last == records[Len(records)]
             k    == Cardinality({ i \in 1..Len(rest) :
                                     RecordTime(rest[i], 0) >= RecordTime(last, 0) })
         IN  SubSeq(rest, 1, k) \o <<last>> \o SubSeq(rest, k + 1, Len(rest))

RecordItems_KeepToo(record) ==
    SelectSeq(
        [i \in 1..Len(record.items) |->
            [productName   |-> record.items[i].productName,
             quantity      |-> IF record.items[i].quantity = 0 THEN 1
                               ELSE record.items[i].quantity,
             unitSalePrice |-> record.items[i].unitSalePrice,
             condition     |-> IF record.items[i].condition = Null THEN "nuevo"
                               ELSE record.items[i].condition,
             disposition   |-> IF record.items[i].disposition = Null THEN "sell"
                               ELSE record.items[i].disposition]],
        LAMBDA entry : entry.productName # <<>>)

\* the line items of a record that can tag an item, with their defaults
RecordItems(record) ==
    SelectSeq(
        [i \in 1..Len(record.items) |->
            [productName   |-> record.items[i].productName,
             quantity      |-> IF record.items[i].quantity = 0 THEN 1
                               ELSE record.items[i].quantity,
             unitSalePrice |-> record.items[i].unitSalePrice,
             condition     |-> IF record.items[i].condition = Null THEN "nuevo"
                               ELSE record.items[i].condition,
             disposition   |-> IF record.items[i].disposition = Null THEN "sell"
                               ELSE record.items[i].disposition]],
        LAMBDA entry : entry.disposition # "keep" /\ entry.productName # <<>>)

\* every (record, line item) in the order the two loops visit them
RECURSIVE Flatten(_)
Flatten(seqs) == IF seqs = <<>> THEN <<>> ELSE Head(seqs) \o Flatten(Tail(seqs))

LineItemsInOrder(sorted, clock) ==
    Flatten([r \in 1..Len(sorted) |->
        [k \in 1..Len(RecordItems(sorted[r])) |->
            [batchCode  |-> sorted[r].batchCode,
             recordDate |-> RecordTime(sorted[r], clock),
             recordItem |-> RecordItems(sorted[r])[k],
             record     |-> r,
             line       |-> k]]])

NumberOr0(v) == IF v = NoNumber THEN 0 ELSE v

Candidates_IgnoreUsed(unassigned, usedIds, recordItem) ==
    SelectSeq(unassigned, LAMBDA item :
        /\ normalizeText(item.productName) = normalizeText(recordItem.productName)
        /\ (IF item.condition = Null THEN "nuevo" ELSE item.condition) = recordItem.condition)

Candidates(unassigned, usedIds, recordItem) ==
    SelectSeq(unassigned, LAMBDA item :
        /\ item.id \notin usedIds
        /\ normalizeText(item.productName) = normalizeText(recordItem.productName)
        /\ (IF item.condition = Null THEN "nuevo" ELSE item.condition) = recordItem.condition)

\* The sort key of the comparator: sale price match first, then quantity
\* distance, then date distance (prices are whole numbers, which Math.round
\* leaves as they are).
MatchKey(item, recordItem, recordDate) ==
    <<IF NumberOr0(item.salePrice) = recordItem.unitSalePrice THEN 0 ELSE 1,
      Abs(item.quantity - recordItem.quantity),
      Abs(item.date - recordDate)>>

KeyBefore(a, b) ==
    \/ a[1] < b[1]
    \/ a[1] = b[1] /\ a[2] < b[2]
    \/ a[1] = b[1] /\ a[2] = b[2] /\ a[3] < b[3]

BestMatch_First(candidates, recordItem, recordDate) == candidates[1]

\* [...candidates].sort(...)[0]: the first of the candidates no other comes before
BestMatch(candidates, recordItem, recordDate) ==
    LET key(i) == MatchKey(candidates[i], recordItem, recordDate)
    IN  candidates[CHOOSE i \in 1..Len(candidates) :
            \A j \in 1..Len(candidates) :
                IF j < i THEN KeyBefore(key(i), key(j)) ELSE ~KeyBefore(key(j), key(i))]

Unassigned_AnyStatus(inventoryItems, nextMap) ==
    SelectSeq(inventoryItems, LAMBDA item :
        item.batchRef = Null /\ MapGet(nextMap, item.id) = Null)

\* the items a pass may tag: in stock, without batchRef and without map entry
Unassigned(inventoryItems, nextMap) ==
    SelectSeq(inventoryItems, LAMBDA item :
        /\ item.status = "in_stock"
        /\ item.batchRef = Null /\ MapGet(nextMap, item.id) = Null)

RECURSIVE MatchLineItems(_, _, _)
MatchLineItems(lines, unassigned, st) ==
    IF lines = <<>> THEN st
    ELSE LET candidates == Candidates(unassigned, st.usedIds, Head(lines).recordItem)
         IN  IF candidates = <<>> THEN MatchLineItems(Tail(lines), unassigned, st)
             ELSE LET bestMatch == BestMatch(candidates, Head(lines).recordItem,
                                             Head(lines).recordDate)
                  IN  MatchLineItems(Tail(lines), unassigned,
                         [nextMap |-> (bestMatch.id :> Head(lines).batchCode) @@ st.nextMap,
                          usedIds |-> st.usedIds \cup {bestMatch.id},
                          tagged  |-> Append(st.tagged,
                                         [id        |-> bestMatch.id,
                                          batchCode |-> Head(lines).batchCode,
                                          record    |-> Head(lines).record,
                                          line      |-> Head(lines).line])])

reconcileItemBatchMap_Unflagged(inventoryItems, currentMap, raw, clock) ==
    LET none == [null |-> TRUE, nextMap |-> currentMap, tagged |-> <<>>]
    IN  IF inventoryItems = <<>> \/ raw = NoEntry THEN none
        ELSE LET sorted == SortNewestFirst(SelectSeq(raw[1], LAMBDA record :
                               record.batchCode # Null /\ record.batchCode # ""))
                 unassigned == Unassigned(inventoryItems, currentMap)
                 st == MatchLineItems(LineItemsInOrder(sorted, clock), unassigned,
                           [nextMap |-> currentMap, usedIds |-> {}, tagged |-> <<>>])
             IN  IF sorted = <<>> THEN none
                 ELSE [null |-> FALSE, nextMap |-> st.nextMap, tagged |-> st.tagged]

\* reconcileItemBatchMap(inventoryItems, currentMap), with what it reads from
\* localStorage (raw) and the clock.  The result says whether the function
\* returns null; if not, nextMap is the map it returns; tagged lists the
\* assignments of the pass in order.
reconcileItemBatchMap(inventoryItems, currentMap, raw, clock) ==
    LET none == [null |-> TRUE, nextMap |-> currentMap, tagged |-> <<>>]
    IN  IF inventoryItems = <<>> \/ raw = NoEntry THEN none
        ELSE LET sorted == SortNewestFirst(SelectSeq(raw[1], LAMBDA record :
                               record.batchCode # Null /\ record.batchCode # ""))
                 unassigned == Unassigned(inventoryItems, currentMap)
                 st == MatchLineItems(LineItemsInOrder(sorted, clock), unassigned,
                           [nextMap |-> currentMap, usedIds |-> {}, tagged |-> <<>>])
             IN  IF sorted = <<>> \/ st.tagged = <<>> THEN none
                 ELSE [null |-> FALSE, nextMap |-> st.nextMap, tagged |-> st.tagged]

\* The effect on [items]: setItemBatchMap(prev => reconcile(items, prev) || prev)
reconciledMap(inventoryItems, prev, raw, clock) ==
    reconcileItemBatchMap(inventoryItems, prev, raw, clock).nextMap

(***************************************************************************)
(* Dashboard: loading the inventory.  A handler's store calls are numbered *)
(* in the order it makes them; `fail` names the one call of the run that   *)
(* fails (NoFailure: none does).                                           *)
(***************************************************************************)
\* The clock's last tick: it ticks with every handler run that stamps or
\* rewrites a row or a record.
MaxTime == 3

NoFailure == "none"

LoadFailures == {NoFailure, "getItems", "getBatches", "createItems", "getItemsAgain", "createBatch"}

\* What a session works on: the store, localStorage and the Dashboard state.
World ==
    [db |-> db, dbBatches |-> dbBatches, nextId |-> nextId, now |-> now,
     lsHistory |-> lsHistory, lsItems |-> lsItems,
     items |-> items, itemBatchMap |-> itemBatchMap]

\* The handler ends: the world it has computed becomes the state.
Commit(world) ==
    \E w \in {world} :
        /\ w.now <= MaxTime
        /\ db' = w.db /\ dbBatches' = w.dbBatches /\ nextId' = w.nextId /\ now' = w.now
        /\ lsHistory' = w.lsHistory /\ lsItems' = w.lsItems
        /\ items' = w.items /\ itemBatchMap' = w.itemBatchMap

\* a local item as the migration sends it to the store
itemsToMigrate(parsedLocal, clock) ==
    [i \in 1..Len(parsedLocal) |->
        [productName   |-> IF parsedLocal[i].productName = <<>>
                           THEN <<"P", "r", "o", "d", "u", "c", "t", "o">>
                           ELSE parsedLocal[i].productName,
         purchasePrice |-> NumberOr0(parsedLocal[i].purchasePrice),
         salePrice     |-> IF NumberOr0(parsedLocal[i].salePrice) = 0 THEN NoNumber
                           ELSE parsedLocal[i].salePrice,
         quantity      |-> IF NumberOr0(parsedLocal[i].quantity) = 0 THEN 1
                           ELSE parsedLocal[i].quantity,
         date          |-> IF parsedLocal[i].date = NoNumber THEN clock
                           ELSE parsedLocal[i].date,
         saleDate      |-> parsedLocal[i].saleDate,
         status        |-> IF parsedLocal[i].status = Null THEN "in_stock"
                           ELSE parsedLocal[i].status,
         condition     |-> IF parsedLocal[i].condition = Null THEN "nuevo"
                           ELSE parsedLocal[i].condition,
         batchRef      |-> IF parsedLocal[i].batchRef = "" THEN Null
                           ELSE parsedLocal[i].batchRef]]

\* createItems: one insert of all the rows, without retries
createItems(table, newItems, firstId, clock, columns) ==
    LET payloads == [i \in 1..Len(newItems) |-> mapToDb(newItems[i])]
    IN  IF \E i \in 1..Len(newItems) : MissingColumnError(payloads[i], columns) # Null
        THEN [ok |-> FALSE, db |-> table]
        ELSE [ok |-> TRUE,
              db |-> [id \in DOMAIN table \cup (firstId..(firstId + Len(newItems) - 1)) |->
                         IF id \in DOMAIN table THEN table[id]
                         ELSE InsertedRow(payloads[id - firstId + 1], id, clock, columns)]]

RECURSIVE createBatches(_, _, _)
createBatches(batches, records, firstId) ==
    IF records = <<>> THEN batches
    ELSE createBatches(createBatch(batches, Head(records), firstId).dbBatches,
                       Tail(records), firstId + 1)

\* The auto-migration of local items in loadItems, when the store has no item.
MigratedItems(w, fail, clock, columns) ==
    IF w.db = <<>> /\ w.lsItems # NoEntry /\ w.lsItems[1] # <<>>
    THEN LET made == createItems(w.db, itemsToMigrate(w.lsItems[1], clock),
                                 w.nextId, clock, columns)
         IN  IF fail = "createItems" \/ ~made.ok THEN w
             ELSE [w EXCEPT !.db = made.db, !.nextId = @ + Len(w.lsItems[1]),
                            !.now = @ + 1, !.lsItems = NoEntry]
    ELSE w

\* The auto-migration of the local batch history, when the store has no batch
\* (or could not be asked).  A failing createBatch is the first one.
MigratedBatches(w, fail) ==
    LET finalBatchesExist == fail # "getBatches" /\ getBatches(w.dbBatches) # <<>>
    IN  IF ~finalBatchesExist /\ w.lsHistory # NoEntry /\ w.lsHistory[1] # <<>>
           /\ fail # "createBatch"
        THEN [w EXCEPT !.dbBatches = createBatches(@, w.lsHistory[1], w.nextId),
                       !.nextId = @ + Len(w.lsHistory[1]),
                       !.now = @ + 1,
                       !.lsHistory = NoEntry]
        ELSE w

\* loadItems up to setItems: the store and localStorage it leaves
LoadedStore(w, fail, clock, columns) ==
    IF fail = "getItems" THEN w
    ELSE MigratedBatches(MigratedItems(w, fail, clock, columns), fail)

\* loadItems, then the effect on [items] that reconciles the batch map;
\* order is the order in which the store returns the rows
loadItemsIn(w, order, fail, clock, columns) ==
    LET s == LoadedStore(w, fail, clock, columns)
        finalItems == IF fail = "getItemsAgain" /\ s.db # w.db THEN <<>>
                      ELSE getItems(s.db, order)
    IN  IF fail = "getItems" THEN w
        ELSE [s EXCEPT !.items = finalItems,
                       !.itemBatchMap = reconciledMap(finalItems, @, s.lsHistory, clock)]

\* A handler ends with loadItems (onInventoryRefresh) on the world it has
\* computed; the store returns the rows in one of the orders by date.
Refresh(world, fail) ==
    \E w \in {world} :
        \E order \in DateOrders(LoadedStore(w, fail, now, schema).db) :
            Commit(loadItemsIn(w, order, fail, now, schema))

\* The Dashboard (re)loads the inventory: on mount and after handlers.
loadItems(order, fail) ==
    /\ order \in DateOrders(LoadedStore(World, fail, now, schema).db)
    /\ Commit(loadItemsIn(World, order, fail, now, schema))
    /\ alert' = Null
    /\ UNCHANGED <<schema, parked, activeTab, history, batchItems, batchTotalPaid>>

(***************************************************************************)
(* BulkPricingBoard: history, sending a batch to stock, deleting a batch.  *)
(***************************************************************************)
HistoryCap == 50

AlertSendEmpty == "Primero agrega productos a la tanda."

AlertSendOk == "Tanda procesada: stock actualizado y resultado registrado."

AlertSendError == "Hubo un error al procesar la tanda."

AlertDeleteOk(batchCode) == "Tanda " \o batchCode \o " eliminada."

AlertDeleteError == "Hubo un error al eliminar la tanda."

AlertSaveError == "Error al guardar. Intenta nuevamente."

\* `T-${batchIndex.toString().padStart(3, '0')}`
RECURSIVE PadStart(_, _, _)
PadStart(s, length, fill) == IF Len(s) >= length THEN s ELSE PadStart(fill \o s, length, fill)

BatchCode(batchIndex) == "T-" \o PadStart(ToString(batchIndex), 3, "0")

getItemBatchRef_MapFirst(item, map) ==
    IF MapGet(map, item.id) # Null THEN MapGet(map, item.id) ELSE item.batchRef

\* getItemBatchRef: item.batchRef || itemBatchMap[item.id]
getItemBatchRef(item, map) == IF item.batchRef # Null THEN item.batchRef ELSE MapGet(map, item.id)

\* loadHistory, the effect of mounting the board (history starts empty):
\* the store's batches if it has any, else the local cache
loadHistory(fail) ==
    IF fail = NoFailure /\ getBatches(dbBatches) # <<>>
    THEN [history |-> getBatches(dbBatches), lsHistory |-> Stored(getBatches(dbBatches))]
    ELSE [history |-> IF lsHistory = NoEntry THEN <<>> ELSE lsHistory[1], lsHistory |-> lsHistory]

\* Choosing a tab; the board lives while the pricing tab is shown.
selectTab(tab, fail) ==
    /\ tab # activeTab
    /\ activeTab' = tab
    /\ IF tab = "pricing"
       THEN history' = loadHistory(fail).history /\ lsHistory' = loadHistory(fail).lsHistory
       ELSE history' = <<>> /\ UNCHANGED lsHistory
    /\ alert' = Null
    /\ UNCHANGED <<storeVars, parked, lsItems, items, itemBatchMap, batchItems, batchTotalPaid>>

batchType_NeverMixed(itemsToSell, allItems) ==
    IF Len(itemsToSell) = 0 THEN "retenido" ELSE "venta"

batchType(itemsToSell, allItems) ==
    IF Len(itemsToSell) = 0 THEN "retenido"
    ELSE IF Len(itemsToSell) = Len(allItems) THEN "venta" ELSE "mixta"

\* inventoryItems.find(...): the position of the first lot the line item
\* merges into, 0 if there is none
existingStock(inventoryItems, map, item, unitCost, batchCode) ==
    LET matches == { i \in 1..Len(inventoryItems) :
                       /\ inventoryItems[i].status = "in_stock"
                       /\ inventoryItems[i].productName = item.productName
                       /\ inventoryItems[i].condition = item.condition
                       /\ inventoryItems[i].purchasePrice = unitCost
                       /\ getItemBatchRef(inventoryItems[i], map) = batchCode }
    IN  IF matches = {} THEN 0 ELSE CHOOSE i \in matches : \A j \in matches : i <= j

roundedUnitCost_Listed(item) == item.listedUnitPrice

\* Math.round(item.listedUnitPrice * allocationFactor)
roundedUnitCost(item) == FRound(adjustedUnitCost(item))

\* if (existingStock) updateItem(...) else createItem(...): found is the
\* position of existingStock in the snapshot (0: none), cost the line item's
\* adjustedUnitCost
MergeOrCreate(table, id, item, cost, found, ctx) ==
    IF found # 0
    THEN updateItem(table, ctx.inventoryItems[found].id,
             [quantity  |-> ctx.inventoryItems[found].quantity + item.quantity,
              salePrice |-> item.unitSalePrice,
              condition |-> item.condition,
              batchRef  |-> ctx.batchCode], ctx.columns)
    ELSE createItem(table,
             [productName   |-> item.productName,
              purchasePrice |-> cost,
              salePrice     |-> item.unitSalePrice,
              quantity      |-> item.quantity,
              date          |-> ctx.clock,
              status        |-> "in_stock",
              condition     |-> item.condition,
              batchRef      |-> ctx.batchCode], id, ctx.clock, ctx.columns)

MaterializeAt(table, id, item, cost, ctx) ==
    MergeOrCreate(table, id, item, cost,
        existingStock(ctx.inventoryItems, ctx.itemBatchMap, item, cost, ctx.batchCode), ctx)

\* The store call sendBatchToStock makes for one sell line item.
MaterializeLine(table, id, item, ctx) ==
    MaterializeAt(table, id, item, roundedUnitCost(item), ctx)

\* the loop's state after the store call for a line item has returned
Materialized(st, call, ctx) ==
    [db           |-> call.db,
     nextId       |-> IF call.item.id = st.nextId THEN st.nextId + 1 ELSE st.nextId,
     itemBatchMap |-> (call.item.id :> ctx.batchCode) @@ st.itemBatchMap,
     failed       |-> FALSE]

\* A transactional variant of the loop: a failing call undoes the calls
\* made before it.
RECURSIVE MaterializeFrom_Atomic(_, _, _, _)
RECURSIVE MaterializeNext_Atomic(_, _, _, _, _)
MaterializeNext_Atomic(k, itemsToSell, st, ctx, call) ==
    IF ctx.fail = k \/ ~call.ok THEN [st EXCEPT !.failed = TRUE]
    ELSE IF MaterializeFrom_Atomic(k + 1, itemsToSell, Materialized(st, call, ctx), ctx).failed
    THEN [st EXCEPT !.failed = TRUE]
    ELSE MaterializeFrom_Atomic(k + 1, itemsToSell, Materialized(st, call, ctx), ctx)

MaterializeFrom_Atomic(k, itemsToSell, st, ctx) ==
    IF k > Len(itemsToSell) THEN st
    ELSE MaterializeNext_Atomic(k, itemsToSell, st, ctx,
             MaterializeLine(st.db, st.nextId, itemsToSell[k], ctx))

\* The loop of sendBatchToStock from the k-th sell line item on; the store
\* call numbered ctx.fail fails, which ends the loop.
RECURSIVE MaterializeFrom(_, _, _, _)
RECURSIVE MaterializeNext(_, _, _, _, _)
\* call: what the store call for the k-th sell line item returned
MaterializeNext(k, itemsToSell, st, ctx, call) ==
    IF ctx.fail = k \/ ~call.ok THEN [st EXCEPT !.failed = TRUE]
    ELSE MaterializeFrom(k + 1, itemsToSell, Materialized(st, call, ctx), ctx)

MaterializeFrom(k, itemsToSell, st, ctx) ==
    IF k > Len(itemsToSell) THEN st
    ELSE MaterializeNext(k, itemsToSell, st, ctx,
             MaterializeLine(st.db, st.nextId, itemsToSell[k], ctx))

Take(s, n) == IF Len(s) <= n THEN s ELSE SubSeq(s, 1, n)

nextBatchCode_FromStore == BatchCode(Len(dbBatches) + 1)

\* const batchIndex = history.length + 1, formatted
nextBatchCode == BatchCode(Len(history) + 1)

\* "Enviar a stock": fail is the number of the store call that fails (the
\* k-th sell line item's, or createBatch after them; 0: none), loadFail the
\* failure of the refresh that follows a successful send.
sendBatchToStock(fail, loadFail) ==
    /\ activeTab = "pricing"
    /\ IF normalizedItems = <<>>
       THEN /\ fail = 0 /\ loadFail = NoFailure
            /\ alert' = AlertSendEmpty
            /\ UNCHANGED <<storeVars, parked, localVars, sessionVars, batchItems, batchTotalPaid>>
       ELSE LET itemsToSell == SelectSeq(normalizedItems, IsSell)
                batchCode   == nextBatchCode
                record == [batchCode        |-> batchCode,
                           batchType        |-> batchType(itemsToSell, normalizedItems),
                           createdAt        |-> now,
                           totalPaid        |-> batchTotalPaid,
                           totalSellRevenue |-> totalSellRevenue,
                           cashProfit       |-> expectedProfit,
                           retainedValue    |-> retainedValue,
                           itemsCount       |-> Len(normalizedItems),
                           items            |-> normalizedItems]
            IN  /\ fail <= Len(itemsToSell) + 1
                /\ UNCHANGED <<schema, parked, activeTab, batchTotalPaid>>
                /\ \E st \in { MaterializeFrom(1, itemsToSell,
                                   [db |-> db, nextId |-> nextId,
                                    itemBatchMap |-> itemBatchMap, failed |-> FALSE],
                                   [inventoryItems |-> items, itemBatchMap |-> itemBatchMap,
                                    batchCode |-> batchCode,
                                    clock |-> now, columns |-> schema, fail |-> fail]) } :
                      LET written == [World EXCEPT !.db = st.db, !.nextId = st.nextId,
                                                   !.now = @ + 1,
                                                   !.itemBatchMap = st.itemBatchMap]
                      IN  IF st.failed \/ fail = Len(itemsToSell) + 1
                          THEN /\ loadFail = NoFailure
                               /\ Commit(written)
                               /\ alert' = AlertSendError
                               /\ UNCHANGED <<history, batchItems>>
                          ELSE \E saved \in { createBatch(dbBatches, record, st.nextId) } :
                                  LET nextHistory == Take(<<saved.batch>> \o history,
                                                          HistoryCap)
                                  IN  /\ Refresh([written EXCEPT
                                                    !.dbBatches = saved.dbBatches,
                                                    !.nextId = @ + 1,
                                                    !.lsHistory = Stored(nextHistory)],
                                                 loadFail)
                                      /\ history' = nextHistory
                                      /\ batchItems' = <<>>
                                      /\ alert' = AlertSendOk

\* for (const item of relatedItems) await itemService.deleteItem(item.id)
RECURSIVE deleteItems(_, _)
deleteItems(table, relatedItems) ==
    IF relatedItems = <<>> THEN table
    ELSE deleteItems(deleteItem(table, Head(relatedItems).id), Tail(relatedItems))

\* "Eliminar" on the r-th record of the history, confirmed by the user; the
\* store call numbered fail fails (a related item's delete, or deleteBatch
\* after them; 0: none).
deleteBatchRecord(r, fail, loadFail) ==
    /\ activeTab = "pricing"
    /\ r \in 1..Len(history)
    /\ LET recordId == history[r].id
           target == history[CHOOSE i \in 1..Len(history) :
                                /\ history[i].id = recordId
                                /\ \A j \in 1..(i - 1) : history[j].id # recordId]
           relatedItems == SelectSeq(items, LAMBDA item :
                               getItemBatchRef(item, itemBatchMap) = target.batchCode)
           relatedIds(n) == { relatedItems[i].id : i \in 1..n }
           table(n) == deleteItems(db, SubSeq(relatedItems, 1, n))
           nextHistory == SelectSeq(history, LAMBDA record : record.id # recordId)
           nextMap == [id \in (DOMAIN itemBatchMap) \ relatedIds(Len(relatedItems)) |->
                          itemBatchMap[id]]
           deleted == [World EXCEPT !.db = table(Len(relatedItems)),
                                    !.dbBatches = deleteBatch(dbBatches, recordId),
                                    !.lsHistory = Stored(nextHistory),
                                    !.itemBatchMap = nextMap]
       IN  /\ fail <= Len(relatedItems) + 1
           /\ IF fail # 0
              THEN /\ loadFail = NoFailure
                   /\ db' = table(fail - 1)
                   /\ alert' = AlertDeleteError
                   /\ UNCHANGED <<dbBatches, nextId, now, localVars, sessionVars>>
              ELSE /\ Refresh(deleted, loadFail)
                   /\ history' = nextHistory
                   /\ alert' = AlertDeleteOk(target.batchCode)
                   /\ UNCHANGED activeTab
    /\ UNCHANGED <<schema, parked, batchItems, batchTotalPaid>>

(***************************************************************************)
(* Dashboard: mounting, and saving a new item by hand.                     *)
(***************************************************************************)
\* The page is (re)loaded: the Dashboard mounts with no items, the dashboard
\* tab and the batch map localStorage kept, and loads the inventory.
mountDashboard(loadFail) ==
    /\ Refresh([World EXCEPT !.items = <<>>], loadFail)
    /\ activeTab' = "dashboard"
    /\ history' = <<>>
    /\ alert' = Null
    /\ UNCHANGED <<schema, parked, batchItems, batchTotalPaid>>

\* handleSaveItem with no item being edited: the form's item is shown at
\* once under a temporary id, then created in the store and replaced by the
\* saved one; each change of items runs the reconcile effect.
handleSaveItem_new(formData, fail, loadFail) ==
    LET newItemData ==
            [productName   |-> IF formData.productName = <<>>
                               THEN <<"P", "r", "o", "d", "u", "c", "t", "o", " ",
                                      "s", "i", "n", " ", "n", "o", "m", "b", "r", "e">>
                               ELSE formData.productName,
             purchasePrice |-> formData.purchasePrice,
             salePrice     |-> formData.salePrice,
             quantity      |-> IF formData.quantity = 0 THEN 1 ELSE formData.quantity,
             date          |-> now,
             status        |-> formData.status,
             condition     |-> IF formData.condition = Null THEN "nuevo" ELSE formData.condition,
             saleDate      |-> IF formData.status = "sold" THEN now ELSE NoNumber]
        tempId == nextId
        tempItem == [id |-> tempId, batchRef |-> Null] @@ newItemData
        shown == [World EXCEPT
                    !.items = <<tempItem>> \o items,
                    !.itemBatchMap = reconciledMap(<<tempItem>> \o items, itemBatchMap,
                                                   lsHistory, now),
                    !.nextId = tempId + 1,
                    !.now = @ + 1]
        call == createItem(db, newItemData, shown.nextId, now, schema)
        replaced == [i \in 1..Len(shown.items) |->
                        IF shown.items[i].id = tempId THEN call.item ELSE shown.items[i]]
    IN  /\ UNCHANGED <<schema, parked, activeTab, history, batchItems, batchTotalPaid>>
        /\ IF fail \/ ~call.ok
           THEN /\ Refresh(shown, loadFail)
                /\ alert' = AlertSaveError
           ELSE /\ loadFail = NoFailure
                /\ Commit([shown EXCEPT
                              !.db = call.db,
                              !.nextId = @ + 1,
                              !.items = replaced,
                              !.itemBatchMap = reconciledMap(replaced, @, lsHistory, now)])
                /\ alert' = Null

AlertSellTooMany(quantity, available) ==
    "No puedes vender " \o ToString(quantity) \o ". Solo tienes " \o ToString(available)
        \o " en stock."

Max(a, b) == IF a >= b THEN a ELSE b

Caught_NoReload(world, loadFail) ==
    /\ loadFail = NoFailure
    /\ Commit(world)
    /\ alert' = AlertSaveError

\* A handler's catch block: the alert, then loadItems on what was written.
Caught(world, loadFail) ==
    /\ Refresh(world, loadFail)
    /\ alert' = AlertSaveError

exceedsStock_Never(quantity, editingItem) == FALSE

\* the sale asks for more units than the lot has
exceedsStock(quantity, editingItem) == quantity > editingItem.quantity

discountStock_AlwaysDeletes(table, id, remaining, columns) ==
    [ok |-> TRUE, db |-> deleteItem(table, id), item |-> Null]

discountStock_KeepsEmptyLot(table, id, remaining, columns) ==
    updateItem(table, id, [quantity |-> remaining], columns)

\* the lot after a sale: updated to what remains, deleted if nothing does
discountStock(table, id, remaining, columns) ==
    IF remaining > 0
    THEN updateItem(table, id, [quantity |-> remaining], columns)
    ELSE [ok |-> TRUE, db |-> deleteItem(table, id), item |-> Null]

\* handleSaveItem, editing an in_stock item with the form's status sold: a
\* sold record of the quantity is created, the lot keeps the rest or goes.
sellFromStock(editingItem, formData, quantity, formDateISO, fail, loadFail) ==
    IF exceedsStock(quantity, editingItem)
    THEN /\ fail = 0 /\ loadFail = NoFailure
         /\ alert' = AlertSellTooMany(quantity, editingItem.quantity)
         /\ UNCHANGED <<db, dbBatches, nextId, now, localVars, items, itemBatchMap>>
    ELSE \E unitSalePrice \in { IF NumberOr0(formData.salePrice) # 0 THEN formData.salePrice
                                ELSE IF NumberOr0(editingItem.salePrice) # 0
                                THEN editingItem.salePrice
                                ELSE editingItem.purchasePrice } :
         \E sold \in { createItem(db,
                          [productName   |-> editingItem.productName,
                           purchasePrice |-> editingItem.purchasePrice,
                           salePrice     |-> unitSalePrice,
                           quantity      |-> quantity,
                           date          |-> editingItem.date,
                           status        |-> "sold",
                           condition     |-> editingItem.condition,
                           batchRef      |-> editingItem.batchRef,
                           saleDate      |-> formDateISO],
                          nextId, now, schema) } :
         \E remaining \in { editingItem.quantity - quantity } :
         \E lot \in { discountStock(sold.db, editingItem.id, remaining, schema) } :
             IF fail = 1 \/ ~sold.ok
             THEN Caught([World EXCEPT !.now = @ + 1], loadFail)
             ELSE IF fail = 2 \/ ~lot.ok
             THEN Caught([World EXCEPT !.db = sold.db, !.nextId = @ + 1, !.now = @ + 1],
                         loadFail)
             ELSE /\ Refresh([World EXCEPT !.db = lot.db, !.nextId = @ + 1, !.now = @ + 1],
                             loadFail)
                  /\ alert' = Null

returnStock_NoneFound(editingItem, formData, condition) == 0

\* items.find(...) of a return: the position of the first in_stock lot the
\* returned item merges into, 0 if there is none
returnStock(editingItem, formData, condition) ==
    LET matches == { i \in 1..Len(items) :
                       /\ items[i].id # editingItem.id
                       /\ items[i].status = "in_stock"
                       /\ items[i].productName = (IF formData.productName = <<>>
                                                  THEN editingItem.productName
                                                  ELSE formData.productName)
                       /\ items[i].purchasePrice = (IF NumberOr0(formData.purchasePrice) = 0
                                                    THEN editingItem.purchasePrice
                                                    ELSE formData.purchasePrice)
                       /\ items[i].condition = condition
                       /\ getItemBatchRef(items[i], itemBatchMap) = editingItem.batchRef }
    IN  IF matches = {} THEN 0 ELSE CHOOSE i \in matches : \A j \in matches : i <= j

\* handleSaveItem, returning a sold item to a lot that matches it: the lot
\* takes the quantity and the sold record is deleted.
mergeIntoStock(editingItem, stock, quantity, fail, loadFail) ==
    \E lot \in { updateItem(db, stock.id, [quantity |-> stock.quantity + quantity], schema) } :
        IF fail = 1 \/ ~lot.ok
        THEN Caught([World EXCEPT !.now = @ + 1], loadFail)
        ELSE IF fail = 2
        THEN Caught([World EXCEPT !.db = lot.db, !.now = @ + 1], loadFail)
        ELSE /\ Refresh([World EXCEPT !.db = deleteItem(lot.db, editingItem.id),
                                      !.now = @ + 1], loadFail)
             /\ alert' = Null

\* handleSaveItem, every other edit: the item is shown updated at once, then
\* updated in the store; the list is not reloaded.
updateInPlace(i, editingItem, formData, quantity, formDateISO, condition, fail, loadFail) ==
    \E updates \in { [productName   |-> formData.productName,
                      purchasePrice |-> IF NumberOr0(formData.purchasePrice) = 0
                                        THEN editingItem.purchasePrice
                                        ELSE formData.purchasePrice,
                      salePrice     |-> IF formData.salePrice # NoNumber
                                        THEN formData.salePrice
                                        ELSE editingItem.salePrice,
                      quantity      |-> quantity,
                      date          |-> formDateISO,
                      saleDate      |-> IF formData.status = "sold" THEN formDateISO
                                        ELSE NoNumber,
                      status        |-> formData.status,
                      condition     |-> condition,
                      batchRef      |-> editingItem.batchRef] } :
    \E updated \in { [items EXCEPT ![i] = updates @@ editingItem] } :
    \E shown \in { [World EXCEPT
                      !.items = updated,
                      !.itemBatchMap = reconciledMap(updated, @, lsHistory, now),
                      !.now = @ + 1] } :
    \E call \in { updateItem(db, editingItem.id, updates, schema) } :
        IF fail # 0 \/ ~call.ok
        THEN Caught(shown, loadFail)
        ELSE /\ loadFail = NoFailure
             /\ Commit([shown EXCEPT !.db = call.db])
             /\ alert' = Null

editingItemAt_Reloaded(i) ==
    IF items[i].id \in DOMAIN db
    THEN [mapFromDb(db[items[i].id]) EXCEPT
            !.batchRef = getItemBatchRef(mapFromDb(db[items[i].id]), itemBatchMap)]
    ELSE [items[i] EXCEPT !.batchRef = getItemBatchRef(items[i], itemBatchMap)]

\* setEditingItem({ ...item, batchRef: resolvedBatchRef }) on the item of the
\* list the user has clicked
editingItemAt(i) == [items[i] EXCEPT !.batchRef = getItemBatchRef(items[i], itemBatchMap)]

\* handleSaveItem with items[i] being edited (startEdit and onSell open the
\* form on the item with its batch reference resolved).
handleSaveItem_edit(i, formData, fail, loadFail) ==
    \E editingItem \in { editingItemAt(i) } :
    \E condition \in { IF formData.condition # Null THEN formData.condition
                       ELSE IF editingItem.condition # Null THEN editingItem.condition
                       ELSE "nuevo" } :
    \E formDateISO \in { IF formData.date = NoNumber THEN editingItem.date ELSE formData.date } :
    \E quantity \in { Max(1, IF formData.quantity = 0 THEN editingItem.quantity
                             ELSE formData.quantity) } :
    \E stock \in { IF editingItem.status = "sold" /\ formData.status = "in_stock"
                   THEN returnStock(editingItem, formData, condition) ELSE 0 } :
        /\ fail \in 0..2
        /\ UNCHANGED <<schema, parked, activeTab, history, batchItems, batchTotalPaid>>
        /\ IF editingItem.status = "in_stock" /\ formData.status = "sold"
           THEN sellFromStock(editingItem, formData, quantity, formDateISO, fail, loadFail)
           ELSE IF stock # 0
           THEN mergeIntoStock(editingItem, items[stock], quantity, fail, loadFail)
           ELSE updateInPlace(i, editingItem, formData, quantity, formDateISO, condition,
                              fail, loadFail)

AlertMigrated == "¡Sincronización completa con Supabase!"

AlertMigrateError == "Error al migrar los datos. Revisa la conexión con Supabase."

\* "Sincronizar" (handleMigrateLocalData): the local items go to the store
\* in one insert, the records of the local history one by one; the success
\* ends with a reload of the page.  fail is the number of the store call
\* that throws (1: createItems, k + 1: the k-th createBatch, 0: none),
\* loadFail the failure of the load after the reload.
handleMigrateLocalData(fail, loadFail) ==
    LET hasItems   == lsItems # NoEntry /\ lsItems[1] # <<>>
        hasHistory == lsHistory # NoEntry /\ lsHistory[1] # <<>>
        records    == IF hasHistory THEN lsHistory[1] ELSE <<>>
        made       == createItems(db, itemsToMigrate(lsItems[1], now), nextId, now, schema)
        itemsFail  == hasItems /\ (fail = 1 \/ ~made.ok)
        w1         == IF hasItems /\ ~itemsFail
                      THEN [World EXCEPT !.db = made.db, !.nextId = @ + Len(lsItems[1]),
                                         !.lsItems = NoEntry, !.now = @ + 1]
                      ELSE [World EXCEPT !.now = @ + 1]
        created    == IF itemsFail THEN 0
                      ELSE IF fail >= 2 THEN fail - 2 ELSE Len(records)
        w2         == [w1 EXCEPT
                         !.dbBatches = createBatches(@, SubSeq(records, 1, created), w1.nextId),
                         !.nextId = @ + created,
                         !.lsHistory = IF hasHistory /\ created = Len(records) /\ fail = 0
                                       THEN NoEntry ELSE @]
    IN  /\ hasItems \/ hasHistory
        /\ fail \in 0..(Len(records) + 1)
        /\ fail = 1 => hasItems
        /\ UNCHANGED <<schema, parked, batchItems, batchTotalPaid>>
        /\ IF itemsFail \/ fail >= 2
           THEN /\ loadFail = NoFailure
                /\ Commit(w2)
                /\ alert' = AlertMigrateError
                /\ UNCHANGED <<activeTab, history>>
           ELSE /\ Refresh([w2 EXCEPT !.items = <<>>], loadFail)
                /\ alert' = AlertMigrated
                /\ activeTab' = "dashboard"
                /\ history' = <<>>

(***************************************************************************)
(* The session: one user on an empty store, with the working batch the     *)
(* Dashboard restores from localStorage 'pricing_batch_v1' on mount.       *)
(***************************************************************************)
\* line items as addItem and the line editors leave them
SavedSellLine ==
    [productName |-> <<"a">>, quantity |-> 2, listedUnitPrice |-> 3,
     unitSalePrice |-> 5, condition |-> "nuevo", disposition |-> "sell"]

SavedKeepLine ==
    [productName |-> <<"a">>, quantity |-> 1, listedUnitPrice |-> 3,
     unitSalePrice |-> 0, condition |-> "nuevo", disposition |-> "keep"]

\* the working batches a session starts with
SavedBatches ==
    { <<>>,
      <<SavedSellLine>>, <<SavedKeepLine>>,
      <<SavedSellLine, SavedSellLine>>, <<SavedSellLine, SavedKeepLine>>,
      <<SavedKeepLine, SavedSellLine>>, <<SavedKeepLine, SavedKeepLine>>,
      <<SavedSellLine, SavedKeepLine, SavedSellLine>> }

Init ==
    /\ db = <<>> /\ dbBatches = <<>> /\ schema = OptionalColumns
    /\ nextId = 1 /\ now = 1
    /\ lsHistory = NoEntry /\ lsItems = NoEntry
    /\ items = <<>> /\ itemBatchMap = <<>>
    /\ activeTab = "dashboard" /\ history = <<>>
    /\ batchItems \in SavedBatches /\ batchTotalPaid = 4
    /\ alert = Null /\ parked = NoSession

FormInputs ==
    { [productName |-> <<"a">>, purchasePrice |-> 3, salePrice |-> 0, quantity |-> 1,
       status |-> "in_stock", condition |-> "nuevo"] }

\* The refresh after a handler fails, if it does, at its first call.
RefreshFailures == {NoFailure, "getItems"}

Next ==
    \/ \E tab \in {"dashboard", "pricing"}, fail \in {NoFailure, "getBatches"} :
          selectTab(tab, fail)
    \/ \E fail \in 0..(Len(batchItems) + 1), loadFail \in RefreshFailures :
          sendBatchToStock(fail, loadFail)
    \/ \E r \in 1..Len(history), fail \in 0..(Len(items) + 1), loadFail \in RefreshFailures :
          deleteBatchRecord(r, fail, loadFail)
    \/ \E loadFail \in RefreshFailures : mountDashboard(loadFail)
    \/ \E formData \in FormInputs : handleSaveItem_new(formData, FALSE, NoFailure)

Spec == Init /\ [][Next]_vars

InitAlloc ==
    /\ db = <<>> /\ dbBatches = <<>> /\ schema = OptionalColumns
    /\ nextId = 1 /\ now = 1
    /\ lsHistory = NoEntry /\ lsItems = NoEntry
    /\ items = <<>> /\ itemBatchMap = <<>>
    /\ activeTab = "pricing" /\ history = <<>>
    /\ batchItems = <<>> /\ batchTotalPaid = 0 /\ alert = Null /\ parked = NoSession

NextAlloc ==
    \/ \E n \in { <<"a">>, <<" ">> }, q \in QtyInputs, l \in ListedPriceInputs,
          s \in SalePriceInputs, d \in Dispositions : addItem(n, q, l, s, d)
    \/ \E v \in TotalPaidInputs : setTotalPaid(v)
    \/ \E i \in 1..Len(batchItems), d \in Dispositions : setDisposition(i, d)
    \/ \E i \in 1..Len(batchItems), s \in SalePriceInputs : setUnitSalePrice(i, s)
    \/ \E i \in 1..Len(batchItems) : removeBatchItem(i)

\* The pricing board alone: every working batch its editors can build.
SpecAlloc == InitAlloc /\ [][NextAlloc]_vars

(***************************************************************************)
(* Claims about the price allocator (checked under SpecAlloc).             *)
(***************************************************************************)
HasSell == \E i \in 1..Len(batchItems) : normalizedItems[i].disposition = "sell"

HasKeep == \E i \in 1..Len(batchItems) : normalizedItems[i].disposition = "keep"

AllocatedTotal == FAdd(sellCostAdjusted, retainedValue)

\* |x - t| <= c * 2^(-53) * t for a double x >= 0 and naturals t and c, exactly.
WithinUlps(x, t, c) ==
    IF x.m = <<>> THEN t = 0
    ELSE LET a == IF x.e < 0 THEN x.m ELSE ShiftLeft(x.m, x.e)
             b == IF x.e < 0 THEN ShiftLeft(NatLimbs(t), -x.e) ELSE NatLimbs(t)
             d == IF BigLess(a, b) THEN BigSub(b, a) ELSE BigSub(a, b)
         IN  ~BigLess(BigMulSmall(b, c), ShiftLeft(d, MantBits))

\* C1 as stated: for every non-empty batch with listedSubtotal > 0 the
\* allocated costs of all line items (sell and keep, unrounded) add up to
\* exactly totalPaid.
C1_ExactConservation ==
    (batchItems # <<>> /\ listedSubtotal > 0) => AllocatedTotal = FromInt(batchTotalPaid)

\* C1 amended: the allocated costs add up to totalPaid up to the rounding of
\* the double operations involved: with n line items the difference is at
\* most (n + 4) * 2^-53 * totalPaid.
C1_ConservationUpToRounding ==
    (batchItems # <<>> /\ listedSubtotal > 0)
        => WithinUlps(AllocatedTotal, batchTotalPaid, Len(batchItems) + 4)

C1_Witness ==
    /\ HasSell /\ HasKeep /\ batchTotalPaid > 0 /\ listedSubtotal > 0
    /\ AllocatedTotal # FromInt(batchTotalPaid)

\* C2: expectedProfit + sellCostAdjusted is exactly totalSellRevenue, and
\* only sell line items contribute to totalSellRevenue and sellCostAdjusted.
C2_ProfitPlusCostIsRevenue ==
    /\ FAdd(expectedProfit, sellCostAdjusted) = FromInt(totalSellRevenue)
    /\ ~HasSell => (totalSellRevenue = 0 /\ sellCostAdjusted = FZero)
    /\ \A i \in 1..Len(batchItems) :
          (normalizedItems[i].disposition = "sell"
           /\ \A j \in 1..Len(batchItems) : j # i => normalizedItems[j].disposition = "keep")
             => totalSellRevenue = normalizedItems[i].unitSalePrice * normalizedItems[i].quantity

C2_Witness ==
    /\ HasSell /\ HasKeep /\ batchTotalPaid > 0
    /\ \E i \in 1..Len(batchItems) :
          normalizedItems[i].disposition = "keep" /\ normalizedItems[i].unitSalePrice > 0
    /\ expectedProfit.neg
    /\ sellCostAdjusted # FromInt(FRound(sellCostAdjusted))

\* sum of listedUnitPrice_i * quantity_i, from the first line item on
RECURSIVE C3_Subtotal(_)
C3_Subtotal(lineItems) ==
    IF lineItems = <<>> THEN 0
    ELSE Head(lineItems).listedUnitPrice * Head(lineItems).quantity
         + C3_Subtotal(Tail(lineItems))

\* the double x is the quotient t / s rounded to nearest: |x * s - t| is at
\* most half a unit in x's last place times s
IsQuotient(x, t, s) ==
    IF x.m = <<>> THEN t = 0
    ELSE LET a == BigMulSmall(x.m, s)
             b == ShiftLeft(NatLimbs(t), -x.e)
             d == IF BigLess(a, b) THEN BigSub(b, a) ELSE BigSub(a, b)
         IN  ~BigLess(NatLimbs(s), BigMulSmall(d, 2))

\* the double x is the product f * k rounded to nearest: |x - f * k| is at
\* most half a unit in x's last place
IsProduct(x, f, k) ==
    IF x.m = <<>> THEN f.m = <<>> \/ k = 0
    ELSE LET a == ShiftLeft(x.m, x.e - f.e)
             b == BigMulSmall(f.m, k)
             d == IF BigLess(a, b) THEN BigSub(b, a) ELSE BigSub(a, b)
         IN  x.e >= f.e /\ ~BigLess(ShiftLeft(<<1>>, x.e - f.e), BigMulSmall(d, 2))

\* C3: allocationFactor is totalPaid / listedSubtotal when listedSubtotal,
\* the sum of listedUnitPrice * quantity, is positive, and 1 otherwise; an
\* item's adjusted unit cost is listedUnitPrice * allocationFactor; with
\* totalPaid 80000 and listedSubtotal 100000 the factor is 0.8 and an item
\* listed at 50000 costs 40000.
C3_AllocationFactor ==
    LET s == C3_Subtotal(batchItems)
    IN  /\ s = 0 => allocationFactor = [neg |-> FALSE, m |-> <<4, 0, 0, 0, 0, 0>>, e |-> -52]
        /\ s > 0 => IsQuotient(allocationFactor, batchTotalPaid, s)
        /\ \A i \in 1..Len(batchItems) :
              IsProduct(adjustedUnitCost(batchItems[i]), allocationFactor,
                        batchItems[i].listedUnitPrice)
        /\ (batchTotalPaid = 80000 /\ s = 100000) =>
              /\ allocationFactor =
                    [neg |-> FALSE, m |-> <<6, 409, 614, 409, 614, 410>>, e |-> -53]
              /\ \A i \in 1..Len(batchItems) :
                    batchItems[i].listedUnitPrice = 50000
                        => adjustedUnitCost(batchItems[i]) = FromInt(40000)

C3_Witness ==
    /\ batchTotalPaid = 80000 /\ listedSubtotal = 100000
    /\ \E i \in 1..Len(batchItems) : batchItems[i].listedUnitPrice = 50000
    /\ HasKeep
(***************************************************************************)
(* The reconciler on inventories and histories drawn from bounded sets:    *)
(* the session has the inventory loaded and reloads it.                    *)
(***************************************************************************)
MaxReconItems == 2

MaxReconLines == 2

ReconRowShapes ==
    { [product_name |-> row[1], status |-> row[2], batch_ref |-> row[3]] :
        row \in { << <<"a">>, "in_stock", Null >>,
                  << <<" ", "A">>, "in_stock", Null >>,
                  << <<"a">>, "in_stock", BatchCode(1) >>,
                  << <<"a">>, "sold", Null >> } }

ReconTables ==
    { [id \in 1..Len(shapes) |->
          [id             |-> id,
           created_at     |-> id,
           date           |-> id,
           product_name   |-> shapes[id].product_name,
           purchase_price |-> 3,
           sale_price     |-> 2,
           quantity       |-> 1,
           sale_date      |-> IF shapes[id].status = "sold" THEN id ELSE NoNumber,
           status         |-> shapes[id].status,
           item_condition |-> "nuevo",
           batch_ref      |-> shapes[id].batch_ref]] :
        shapes \in UNION { [1..n -> ReconRowShapes] : n \in 0..MaxReconItems } }

ReconLineShapes ==
    { [productName |-> <<"a">>, quantity |-> 1, listedUnitPrice |-> 3, unitSalePrice |-> 2,
       condition |-> cd[1], disposition |-> cd[2]] :
        cd \in { <<"nuevo", "sell">>, <<"usado", "sell">>, <<"nuevo", "keep">> } }

ReconLineSeqs == UNION { [1..k -> ReconLineShapes] : k \in 1..MaxReconLines }

\* histories, newest record first, with at most MaxReconLines line items in all
ReconHistories(firstId) ==
    { [r \in 1..Len(h) |->
          [id |-> firstId + r - 1,
           batchCode |-> BatchCode(Len(h) - r + 1),
           batchType |-> "venta",
           createdAt |-> Len(h) - r + 1,
           totalPaid |-> 0,
           itemsCount |-> Len(h[r]),
           items |-> h[r]]] :
        h \in { g \in UNION { [1..r -> ReconLineSeqs] : r \in 0..MaxReconLines } :
                  SumInts([r \in 1..Len(g) |-> Len(g[r])]) <= MaxReconLines } }

\* the code of a batch whose record the history no longer has
EarlierCode == BatchCode(MaxReconLines + 1)

InitRecon ==
    /\ db \in ReconTables
    /\ dbBatches \in ReconHistories(Len(db) + 1)
    /\ schema = OptionalColumns
    /\ nextId = Len(db) + Len(dbBatches) + 1
    /\ now = 1
    /\ lsHistory = IF dbBatches = <<>> THEN NoEntry ELSE Stored(dbBatches)
    /\ lsItems = NoEntry
    /\ \E order \in DateOrders(db) : items = getItems(db, order)
    /\ itemBatchMap \in { <<>> } \cup { (id :> EarlierCode) : id \in DOMAIN db }
    /\ activeTab = "dashboard" /\ history = <<>>
    /\ batchItems = <<>> /\ batchTotalPaid = 0 /\ alert = Null /\ parked = NoSession

NextRecon == \E order \in DateOrders(db), fail \in LoadFailures : loadItems(order, fail)

SpecRecon == InitRecon /\ [][NextRecon]_vars

(***************************************************************************)
(* Claims about the reconciler (checked under SpecRecon).                  *)
(***************************************************************************)
\* the pass reconcileItemBatchMap makes on the current inventory and map
Pass == reconcileItemBatchMap(items, itemBatchMap, lsHistory, now)

ItemIds == { items[i].id : i \in 1..Len(items) }

ItemOf(id) == items[CHOOSE i \in 1..Len(items) : items[i].id = id]

\* C8: within one pass every item receives at most one new tag and every
\* historical sell line item tags at most one item: the assignments of a pass
\* are to pairwise distinct items, from pairwise distinct line items, and they
\* are exactly the entries the returned map adds.
C8_OneTagPerItemAndLine ==
    /\ \A i, j \in 1..Len(Pass.tagged) :
          i # j => /\ Pass.tagged[i].id # Pass.tagged[j].id
                   /\ <<Pass.tagged[i].record, Pass.tagged[i].line>>
                        # <<Pass.tagged[j].record, Pass.tagged[j].line>>
    /\ DOMAIN Pass.nextMap \ DOMAIN itemBatchMap = { Pass.tagged[i].id : i \in 1..Len(Pass.tagged) }
    /\ \A i \in 1..Len(Pass.tagged) : Pass.nextMap[Pass.tagged[i].id] = Pass.tagged[i].batchCode

HistoryCodes ==
    IF lsHistory = NoEntry THEN {}
    ELSE { lsHistory[1][r].batchCode : r \in 1..Len(lsHistory[1]) }

\* the two line items of a record have each tagged an item of their own
C8_Witness ==
    /\ Len(items) = 2 /\ DOMAIN itemBatchMap = ItemIds
    /\ \A id \in ItemIds : itemBatchMap[id] \in HistoryCodes /\ ItemOf(id).batchRef = Null
    /\ Len(lsHistory[1]) = 1 /\ Len(RecordItems(lsHistory[1][1])) = 2

\* C9: a pass only fills gaps: every entry of the current map is in the map
\* after the pass with the same code, and no entry is added for an item that
\* has its own batchRef or is sold.
C9_OnlyFillsGaps ==
    [][ /\ \A id \in DOMAIN itemBatchMap :
              id \in DOMAIN itemBatchMap' /\ itemBatchMap'[id] = itemBatchMap[id]
        /\ \A i \in 1..Len(items') :
              items'[i].id \in DOMAIN itemBatchMap' \ DOMAIN itemBatchMap
                 => items'[i].batchRef = Null /\ items'[i].status = "in_stock" ]_vars

\* a pass has added a tag next to an earlier entry, and an item that is sold
\* or has its own batchRef has got none
C9_Witness ==
    /\ \E id \in DOMAIN itemBatchMap : itemBatchMap[id] = EarlierCode
    /\ \E id \in DOMAIN itemBatchMap : itemBatchMap[id] \in HistoryCodes
    /\ \E i \in 1..Len(items) :
          /\ items[i].status = "sold" \/ items[i].batchRef # Null
          /\ MapGet(itemBatchMap, items[i].id) \in {Null, EarlierCode}

\* C10 as stated: a second pass over the same inventory with the map the
\* first pass returned returns null, whatever the inventory.
C10_SecondPassReturnsNull ==
    ~Pass.null => reconcileItemBatchMap(items, Pass.nextMap, lsHistory, now).null

(***************************************************************************)
(* Claims about the batch materializer and the cascade (checked under      *)
(* Spec).                                                                  *)
(***************************************************************************)
SellLines == SelectSeq(normalizedItems, IsSell)

SellCount(record) ==
    Cardinality({ i \in 1..Len(record.items) : record.items[i].disposition = "sell" })

\* C4: every BatchRecord has at least one line item and its batchType is
\* 'retenido' iff it has no sell line item, 'venta' iff all its line items
\* are sell, 'mixta' otherwise; no step taken with an empty working batch
\* adds a record, and sending an empty working batch is rejected without
\* any write to the store, the local cache, the history or the batch map.
C4_BatchType ==
    /\ [](\A r \in 1..Len(dbBatches) :
            /\ Len(dbBatches[r].items) >= 1
            /\ dbBatches[r].batchType = "retenido" <=> SellCount(dbBatches[r]) = 0
            /\ dbBatches[r].batchType = "venta"
                  <=> SellCount(dbBatches[r]) = Len(dbBatches[r].items)
            /\ dbBatches[r].batchType = "mixta"
                  <=> /\ SellCount(dbBatches[r]) > 0
                      /\ SellCount(dbBatches[r]) < Len(dbBatches[r].items))
    /\ [][ /\ batchItems = <<>>
                 => \A r \in 1..Len(dbBatches') :
                       \E q \in 1..Len(dbBatches) : dbBatches'[r] = dbBatches[q]
           /\ alert' = AlertSendEmpty
                 => /\ batchItems = <<>>
                    /\ UNCHANGED <<storeVars, parked, localVars, sessionVars>> ]_vars

\* a mixed batch is on record and a further send of the now empty working
\* batch has been rejected
C4_Witness ==
    /\ alert = AlertSendEmpty
    /\ \E r \in 1..Len(dbBatches) :
          /\ dbBatches[r].batchType = "mixta"
          /\ \E i, j \in 1..Len(dbBatches[r].items) :
                /\ dbBatches[r].items[i].disposition = "sell"
                /\ dbBatches[r].items[j].disposition = "keep"

\* Math.round(listedUnitPrice * allocationFactor) of a line item
C5_Cost(line) == FRound(FMulInt(allocationFactor, line.listedUnitPrice))

\* the i-th item of the session's snapshot is a lot the sell line item
\* merges into
C5_IsLot(i, line, code) ==
    /\ items[i].status = "in_stock"
    /\ items[i].productName = line.productName
    /\ items[i].condition = line.condition
    /\ items[i].purchasePrice = C5_Cost(line)
    /\ (IF items[i].batchRef # Null THEN items[i].batchRef
        ELSE MapGet(itemBatchMap, items[i].id)) = code

C5_LotMatches(line, code) == \E i \in 1..Len(items) : C5_IsLot(i, line, code)

\* the row is the stock item the send creates for the sell line item
C5_RowOf(row, line, code) ==
    /\ row.status = "in_stock"
    /\ row.product_name = line.productName
    /\ row.purchase_price = C5_Cost(line)
    /\ row.sale_price = line.unitSalePrice
    /\ row.quantity = line.quantity
    /\ row.item_condition = line.condition
    /\ row.batch_ref = code

\* C5: a successful send in which no existing lot matches creates for each
\* sell line item exactly one new in_stock row with purchase price
\* round(listedUnitPrice * allocationFactor), sale price unitSalePrice, the
\* line item's quantity and condition and the new batch code as batch_ref;
\* no other row is created and no existing row is modified or removed, so
\* keep line items neither create nor modify stock.
C5_SendCreatesSellItems ==
    [][ alert' = AlertSendOk =>
          LET code   == dbBatches'[1].batchCode
              newIds == (DOMAIN db') \ (DOMAIN db)
          IN  (\A i \in 1..Len(SellLines) : ~C5_LotMatches(SellLines[i], code))
                 => /\ code = BatchCode(Len(history) + 1)
                    /\ \A id \in DOMAIN db : id \in DOMAIN db' /\ db'[id] = db[id]
                    /\ \E f \in [1..Len(SellLines) -> newIds] :
                          /\ \A id \in newIds : \E i \in 1..Len(SellLines) : f[i] = id
                          /\ \A i, j \in 1..Len(SellLines) : i # j => f[i] # f[j]
                          /\ \A i \in 1..Len(SellLines) :
                                C5_RowOf(db'[f[i]], SellLines[i], code) ]_vars

\* a mixed batch has been sent: its sell line item is the only row of the
\* store, at the allocated cost, and the keep line item has left no row
C5_Witness ==
    /\ alert = AlertSendOk
    /\ Len(dbBatches) = 1 /\ dbBatches[1].batchType = "mixta"
    /\ Cardinality(DOMAIN db) = 1
    /\ \A id \in DOMAIN db :
          /\ db[id].batch_ref = dbBatches[1].batchCode
          /\ db[id].purchase_price = 1 /\ db[id].quantity = 2 /\ db[id].sale_price = 5

\* C6: when the store call for the k-th sell line item fails, the send
\* ends with the error alert; the rows created or merged for the first k-1
\* sell line items are in the store (a merged row holds the quantity the
\* session knew plus a merged line item's) and no row has been removed; no
\* BatchRecord is persisted; the history (state and local cache) is
\* unchanged and the working batch is not cleared.
C6_PartialSend ==
    [][ \A k \in 1..Len(SellLines) :
          sendBatchToStock(k, NoFailure) =>
             LET code    == BatchCode(Len(history) + 1)
                 newIds  == (DOMAIN db') \ (DOMAIN db)
                 created == { i \in 1..(k - 1) : ~C5_LotMatches(SellLines[i], code) }
                 merged  == (1..(k - 1)) \ created
             IN  /\ alert' = AlertSendError
                 /\ dbBatches' = dbBatches
                 /\ history' = history /\ lsHistory' = lsHistory
                 /\ batchItems' = batchItems
                 /\ \A id \in DOMAIN db : id \in DOMAIN db'
                 /\ Cardinality(newIds) = Cardinality(created)
                 /\ \A i \in created : \E id \in newIds : C5_RowOf(db'[id], SellLines[i], code)
                 /\ \A i \in merged :
                       \E j \in 1..Len(items) :
                          /\ C5_IsLot(j, SellLines[i], code)
                          /\ items[j].id \in DOMAIN db
                          /\ db'[items[j].id].batch_ref = code
                          /\ db'[items[j].id].status = "in_stock"
                          /\ \E m \in merged :
                                db'[items[j].id].quantity
                                   = items[j].quantity + SellLines[m].quantity ]_vars

\* a send of two sell line items has failed at the second: the first one's
\* row is in the store, tagged with a batch code no record has, and the
\* working batch is still there
C6_Witness ==
    /\ alert = AlertSendError
    /\ Len(batchItems) = 2 /\ Len(SellLines) = 2
    /\ dbBatches = <<>> /\ history = <<>>
    /\ Cardinality(DOMAIN db) = 1
    /\ \A id \in DOMAIN db : db[id].batch_ref = BatchCode(1)

\* the batch reference the session resolves for a row of the store
C7_ResolvedRef(row) ==
    IF mapFromDb(row).batchRef # Null THEN mapFromDb(row).batchRef
    ELSE MapGet(itemBatchMap, row.id)

MaxMatchItems == 2

MaxMatchRecords == 2

MatchRowShapes ==
    { [product_name |-> row[1], item_condition |-> row[2], sale_price |-> row[3],
       quantity |-> row[4], date |-> row[5]] :
        row \in { << <<"a">>, "nuevo", 2, 1, 1 >>,
                  << <<" ", "A">>, "nuevo", 5, 1, 1 >>,
                  << <<"a">>, "nuevo", 2, 2, 1 >>,
                  << <<"a">>, "nuevo", 2, 1, 3 >>,
                  << <<"a", " ", " ", "b">>, "nuevo", 2, 1, 1 >> } }

MatchTables ==
    { [id \in 1..Len(shapes) |->
          [id             |-> id,
           created_at     |-> shapes[id].date,
           date           |-> shapes[id].date,
           product_name   |-> shapes[id].product_name,
           purchase_price |-> 3,
           sale_price     |-> shapes[id].sale_price,
           quantity       |-> shapes[id].quantity,
           sale_date      |-> NoNumber,
           status         |-> "in_stock",
           item_condition |-> shapes[id].item_condition,
           batch_ref      |-> Null]] :
        shapes \in UNION { [1..n -> MatchRowShapes] : n \in 0..MaxMatchItems } }

MatchLineShapes ==
    { [productName |-> line[1], quantity |-> 1, listedUnitPrice |-> 3, unitSalePrice |-> 2,
       condition |-> line[2], disposition |-> line[3]] :
        line \in { << <<"a">>, "nuevo", "sell" >>,
                   << <<"a">>, "usado", "sell" >>,
                   << <<"a">>, "nuevo", "keep" >>,
                   << <<"A", " ", "b">>, "nuevo", "sell" >> } }

\* the one-line records of n batches created at times 1..n, stored oldest
\* first or newest first
MatchHistoriesOf(n) ==
    { [r \in 1..n |->
          [id |-> r,
           batchCode |-> BatchCode(times[r]),
           batchType |-> IF lines[r].disposition = "sell" THEN "venta" ELSE "uso_propio",
           createdAt |-> times[r],
           totalPaid |-> 0,
           itemsCount |-> 1,
           items |-> <<lines[r]>>]] :
        lines \in [1..n -> MatchLineShapes],
        times \in { [r \in 1..n |-> r], [r \in 1..n |-> n + 1 - r] } }

MatchHistories == UNION { MatchHistoriesOf(n) : n \in 0..MaxMatchRecords }

InitMatch ==
    /\ db \in MatchTables
    /\ dbBatches = <<>>
    /\ schema = OptionalColumns
    /\ nextId = Len(db) + 1
    /\ now = 1
    /\ lsHistory \in {NoEntry} \cup { Stored(h) : h \in MatchHistories }
    /\ lsItems = NoEntry
    /\ \E order \in DateOrders(db) : items = getItems(db, order)
    /\ itemBatchMap = <<>>
    /\ activeTab = "dashboard" /\ history = <<>>
    /\ batchItems = <<>> /\ batchTotalPaid = 0 /\ alert = Null /\ parked = NoSession

\* useEffect(() => setItemBatchMap(prev => reconcileItemBatchMap(items, prev) || prev), [items])
reconcileEffect ==
    /\ itemBatchMap' = reconciledMap(items, itemBatchMap, lsHistory, now)
    /\ UNCHANGED <<storeVars, parked, localVars, items, activeTab, history, batchItems, batchTotalPaid,
                   alert>>

NextMatch == reconcileEffect

SpecMatch == InitMatch /\ [][NextMatch]_vars


(***************************************************************************)
(* Claims about the matcher (checked under SpecMatch).                     *)
(***************************************************************************)
\* the items the effect has just tagged
NewlyTagged == { i \in 1..Len(items) :
                   /\ items[i].id \in DOMAIN itemBatchMap'
                   /\ MapGet(itemBatchMap, items[i].id) # itemBatchMap'[items[i].id] }

\* line item k of stored record r is of the given disposition and has the
\* item's productName (trimmed, whitespace collapsed, lowercased) and condition
LineMatches(r, k, item, disposition) ==
    /\ lsHistory[1][r].items[k].disposition = disposition
    /\ normalizeText(lsHistory[1][r].items[k].productName) = normalizeText(item.productName)
    /\ lsHistory[1][r].items[k].condition = item.condition

\* C11: reconcile tags an item with batch code B only if batch B has a
\* sell-disposition line item with the item's normalized productName and the
\* item's condition; a keep-disposition line item never causes a tag.
C11_TagsOnlyFromMatchingSellLine ==
    [][ \A i \in NewlyTagged :
            \E r \in 1..Len(lsHistory[1]) :
                /\ lsHistory[1][r].batchCode = itemBatchMap'[items[i].id]
                /\ \E k \in 1..Len(lsHistory[1][r].items) :
                       LineMatches(r, k, items[i], "sell") ]_vars

\* a pass has tagged an item from a sell line item and left untagged an item
\* that only a keep line item of the history matches
C11_Witness ==
    /\ lsHistory # NoEntry
    /\ \E id \in DOMAIN itemBatchMap : itemBatchMap[id] \in HistoryCodes
    /\ \E j \in 1..Len(items) :
          /\ items[j].id \notin DOMAIN itemBatchMap
          /\ \E r \in 1..Len(lsHistory[1]) : LineMatches(r, 1, items[j], "keep")
          /\ \A r \in 1..Len(lsHistory[1]) : ~LineMatches(r, 1, items[j], "sell")

\* the stored records with a sell line item that matches the item
MatchingRecords(item) ==
    { r \in 1..Len(lsHistory[1]) :
        \E k \in 1..Len(lsHistory[1][r].items) : LineMatches(r, k, item, "sell") }

\* C12: the history is processed newest first: when the single untagged
\* in_stock item of the inventory matches a sell line item of two batches of
\* different createdAt, one pass tags it with the code of the batch created
\* later.
C12_NewestBatchFirst ==
    [][ \A i \in 1..Len(items) :
            ( /\ lsHistory # NoEntry
              /\ Unassigned(items, itemBatchMap) = <<items[i]>>
              /\ Cardinality(MatchingRecords(items[i])) >= 2 )
            => \E r \in MatchingRecords(items[i]) :
                  /\ \A q \in MatchingRecords(items[i]) \ {r} :
                        lsHistory[1][q].createdAt < lsHistory[1][r].createdAt
                  /\ MapGet(itemBatchMap', items[i].id) = lsHistory[1][r].batchCode ]_vars

\* the only item has the code of the later of two matching batches, which
\* the stored history lists last
C12_Witness ==
    /\ Len(items) = 1 /\ lsHistory # NoEntry
    /\ Len(lsHistory[1]) = 2 /\ MatchingRecords(items[1]) = {1, 2}
    /\ lsHistory[1][1].createdAt < lsHistory[1][2].createdAt
    /\ MapGet(itemBatchMap, items[1].id) = lsHistory[1][2].batchCode

\* the stored record that has the batch code
RecordOfCode(code) == CHOOSE r \in 1..Len(lsHistory[1]) : lsHistory[1][r].batchCode = code

SaleMatches(item, r) == NumberOr0(item.salePrice) = lsHistory[1][r].items[1].unitSalePrice

QtyDistance(item, r) == Abs(item.quantity - lsHistory[1][r].items[1].quantity)

TimeDistance(item, r) == Abs(item.date - lsHistory[1][r].createdAt)

\* a is better than b for the line item of record r: sale price match first,
\* then the smaller quantity difference, then the smaller time distance
Better(a, b, r) ==
    \/ SaleMatches(a, r) /\ ~SaleMatches(b, r)
    \/ /\ SaleMatches(a, r) = SaleMatches(b, r)
       /\ QtyDistance(a, r) < QtyDistance(b, r)
    \/ /\ SaleMatches(a, r) = SaleMatches(b, r)
       /\ QtyDistance(a, r) = QtyDistance(b, r)
       /\ TimeDistance(a, r) < TimeDistance(b, r)

\* item j was a candidate when the pass came to record r: untagged before
\* the pass, matching, and not tagged in the pass by a newer record
WasCandidate(j, r) ==
    /\ items[j].status = "in_stock" /\ items[j].batchRef = Null
    /\ MapGet(itemBatchMap, items[j].id) = Null
    /\ LineMatches(r, 1, items[j], "sell")
    /\ j \in NewlyTagged =>
          lsHistory[1][RecordOfCode(itemBatchMap'[items[j].id])].createdAt
             <= lsHistory[1][r].createdAt

\* C13: among the candidates for one historical line item the pass picks
\* one that is best under the lexicographic order (i) rounded salePrice equal
\* to the line item's rounded unitSalePrice before not equal, (ii) smaller
\* absolute quantity difference, (iii) smaller absolute distance between the
\* item's date and the batch's createdAt: no candidate is better than the
\* item the line item tagged.
C13_BestCandidateWins ==
    [][ \A i \in NewlyTagged :
            \A j \in 1..Len(items) :
                WasCandidate(j, RecordOfCode(itemBatchMap'[items[i].id]))
                   => ~Better(items[j], items[i], RecordOfCode(itemBatchMap'[items[i].id])) ]_vars

\* of two matching items the one listed second has the tag, and it is the
\* better (a) by its sale price though its quantity is farther, (b) by its
\* quantity though its date is farther, or (c) by its date alone
C13_Decided(r, chosen, other) ==
    \/ SaleMatches(chosen, r) /\ ~SaleMatches(other, r)
          /\ QtyDistance(chosen, r) > QtyDistance(other, r)
    \/ SaleMatches(chosen, r) = SaleMatches(other, r)
          /\ QtyDistance(chosen, r) < QtyDistance(other, r)
          /\ TimeDistance(chosen, r) > TimeDistance(other, r)
    \/ SaleMatches(chosen, r) = SaleMatches(other, r)
          /\ QtyDistance(chosen, r) = QtyDistance(other, r)
          /\ TimeDistance(chosen, r) < TimeDistance(other, r)

C13_Witness ==
    /\ Len(items) = 2 /\ lsHistory # NoEntry /\ Len(lsHistory[1]) = 1
    /\ LineMatches(1, 1, items[1], "sell") /\ LineMatches(1, 1, items[2], "sell")
    /\ itemBatchMap = (items[2].id :> lsHistory[1][1].batchCode)
    /\ C13_Decided(1, items[2], items[1])

\* C14: reconcile returns an updated map exactly when the pass assigned at
\* least one new tag; otherwise (an empty inventory and an absent or empty
\* history included) it returns null and the caller keeps the previous map.
C14_NullUnlessTagged ==
    LET pass == Pass
    IN  /\ ~pass.null <=> \E i \in 1..Len(items) :
                             /\ MapGet(itemBatchMap, items[i].id) = Null
                             /\ MapGet(pass.nextMap, items[i].id) # Null
        /\ ~pass.null => \A id \in DOMAIN itemBatchMap :
                             MapGet(pass.nextMap, id) = itemBatchMap[id]
        /\ pass.null => reconciledMap(items, itemBatchMap, lsHistory, now) = itemBatchMap
        /\ (items = <<>> \/ lsHistory = NoEntry \/ lsHistory = Stored(<<>>)) => pass.null

\* a pass over an inventory and a history with sell line items, none of them
\* matching an untagged item, keeps the map it had
C14_Witness ==
    /\ items # <<>> /\ itemBatchMap # <<>> /\ lsHistory # NoEntry
    /\ \E r \in 1..Len(lsHistory[1]) : lsHistory[1][r].items[1].disposition = "sell"
    /\ \E i \in 1..Len(items) : MapGet(itemBatchMap, items[i].id) = Null
    /\ Pass.null

(***************************************************************************)
(* The edit form on a stocked store: the session has loaded an inventory   *)
(* of lots and sold records, and the user saves the form on one of its     *)
(* items or on a new item, twice before the clock runs out.                *)
(***************************************************************************)
MaxQuantity == 3

\* rows as createItem and sendBatchToStock leave them
SaleRow(id, purchase_price, quantity, status, batch_ref) ==
    [id             |-> id,
     created_at     |-> 1,
     date           |-> 1,
     product_name   |-> <<"a">>,
     purchase_price |-> purchase_price,
     sale_price     |-> IF status = "sold" THEN 5 ELSE NoNumber,
     quantity       |-> quantity,
     sale_date      |-> IF status = "sold" THEN 1 ELSE NoNumber,
     status         |-> status,
     item_condition |-> "nuevo",
     batch_ref      |-> batch_ref]

SaleTables ==
    { <<>>,
      <<SaleRow(1, 3, 2, "in_stock", Null)>>,
      <<SaleRow(1, 3, 2, "in_stock", Null), SaleRow(2, 3, 1, "sold", Null)>>,
      <<SaleRow(1, 4, 1, "in_stock", Null), SaleRow(2, 3, 2, "sold", Null)>>,
      <<SaleRow(1, 3, 1, "in_stock", BatchCode(1)), SaleRow(2, 3, 1, "sold", Null)>>,
      <<SaleRow(1, 3, 1, "in_stock", Null), SaleRow(2, 3, 2, "sold", BatchCode(1))>> }

InitSale ==
    /\ db \in SaleTables
    /\ dbBatches = <<>>
    /\ schema = OptionalColumns
    /\ nextId = Len(db) + 1
    /\ now = MaxTime - 2
    /\ lsHistory = NoEntry /\ lsItems = NoEntry
    /\ \E order \in DateOrders(db) : items = getItems(db, order)
    /\ itemBatchMap \in { <<>> } \cup { (id :> BatchCode(1)) : id \in DOMAIN db \cap {2} }
    /\ activeTab = "dashboard" /\ history = <<>>
    /\ batchItems = <<>> /\ batchTotalPaid = 0 /\ alert = Null /\ parked = NoSession

\* the form startEdit opens on the item, with the status and the quantity
\* the user sets
EditForms(item) ==
    { [productName   |-> item.productName,
       purchasePrice |-> item.purchasePrice,
       salePrice     |-> item.salePrice,
       quantity      |-> quantity,
       status        |-> status,
       condition     |-> item.condition,
       date          |-> IF item.saleDate # NoNumber THEN item.saleDate ELSE item.date] :
        quantity \in 1..MaxQuantity, status \in {"in_stock", "sold"} }

\* the form openNewModal opens, with the status and the quantity the user sets
NewForms ==
    { [productName |-> <<"a">>, purchasePrice |-> 3, salePrice |-> 0, quantity |-> quantity,
       status |-> status, condition |-> "nuevo"] :
        quantity \in {1, 2}, status \in {"in_stock", "sold"} }

NextSale ==
    \/ \E i \in 1..Len(items) : \E formData \in EditForms(items[i]) :
          handleSaveItem_edit(i, formData, 0, NoFailure)
    \/ \E formData \in NewForms : handleSaveItem_new(formData, FALSE, NoFailure)

SpecSale == InitSale /\ [][NextSale]_vars

(***************************************************************************)
(* Claims about sales and returns (checked under SpecSale).                *)
(***************************************************************************)
\* the user saves the form on items[i] as a sale of the quantity
Sells(i, quantity) ==
    /\ items[i].status = "in_stock"
    /\ \E formData \in EditForms(items[i]) :
          /\ formData.status = "sold" /\ formData.quantity = quantity
          /\ handleSaveItem_edit(i, formData, 0, NoFailure)

\* the step has created exactly one item, a sold one of the quantity
OneNewSoldItem(quantity) ==
    \E id \in DOMAIN db' \ DOMAIN db :
        /\ DOMAIN db' \ DOMAIN db = {id}
        /\ db'[id].status = "sold" /\ db'[id].quantity = quantity

\* C15: selling the whole current quantity of an in_stock lot deletes the
\* lot from the store and creates exactly one new sold item, of a new
\* identity, with that quantity; no other item changes.
C15_FullSale ==
    [][ \A i \in 1..Len(items) :
            Sells(i, items[i].quantity)
               => /\ items[i].id \in DOMAIN db /\ items[i].id \notin DOMAIN db'
                  /\ OneNewSoldItem(items[i].quantity)
                  /\ \A id \in DOMAIN db \ {items[i].id} : db'[id] = db[id] ]_vars

\* a whole lot of two units has been sold: the store holds one record, sold
\* at the lot's unit cost, and no lot
C15_Witness ==
    /\ \E id \in DOMAIN db :
          /\ DOMAIN db = {id}
          /\ db[id].status = "sold" /\ db[id].quantity = 2
          /\ db[id].sale_price = db[id].purchase_price
    /\ Len(items) = 1 /\ items[1].status = "sold"

\* C16: selling less than the current quantity of an in_stock lot leaves the
\* lot in_stock under its identity with the current quantity less the sold
\* one, its other fields unchanged, and creates exactly one new sold item
\* with the sold quantity.
C16_PartialSale ==
    [][ \A i \in 1..Len(items) : \A quantity \in 1..MaxQuantity :
            (quantity < items[i].quantity /\ Sells(i, quantity))
               => /\ items[i].id \in DOMAIN db /\ items[i].id \in DOMAIN db'
                  /\ db'[items[i].id] = [db[items[i].id] EXCEPT !.quantity = @ - quantity]
                  /\ db'[items[i].id].status = "in_stock"
                  /\ OneNewSoldItem(quantity)
                  /\ \A id \in DOMAIN db \ {items[i].id} : db'[id] = db[id] ]_vars

\* one unit of a lot of two has been sold: the lot and the sold record of
\* its sale, each of one unit
C16_Witness ==
    \E lot, sold \in DOMAIN db :
        /\ DOMAIN db = {lot, sold} /\ lot < sold
        /\ db[lot].status = "in_stock" /\ db[lot].quantity = 1
        /\ db[sold].status = "sold" /\ db[sold].quantity = 1
        /\ db[sold].sale_price = db[lot].purchase_price
        /\ db[sold].created_at > db[lot].created_at

\* C17: a sale of more than the lot's current quantity is rejected before
\* any store call: the user is told, no sold item is created, and the lot
\* and every other item stay as they are.
C17_OversellRejected ==
    [][ \A i \in 1..Len(items) : \A quantity \in 1..MaxQuantity :
            (quantity > items[i].quantity /\ Sells(i, quantity))
               => /\ alert' = AlertSellTooMany(quantity, items[i].quantity)
                  /\ UNCHANGED <<storeVars, parked, localVars, items, itemBatchMap>> ]_vars

\* the sale of three units of a lot of two has been rejected
C17_Witness ==
    \E i \in 1..Len(items) :
        /\ items[i].status = "in_stock" /\ items[i].quantity = 2
        /\ items[i].id \in DOMAIN db /\ db[items[i].id].quantity = 2
        /\ alert = AlertSellTooMany(3, 2)

\* the user saves the form on the sold items[i] as a return of the quantity
Returns(i, quantity) ==
    /\ items[i].status = "sold"
    /\ \E formData \in EditForms(items[i]) :
          /\ formData.status = "in_stock" /\ formData.quantity = quantity
          /\ handleSaveItem_edit(i, formData, 0, NoFailure)

\* the in_stock lots that match items[i] on productName, purchasePrice,
\* condition and resolved batch reference
MatchingLots(i) ==
    { j \in 1..Len(items) :
        /\ j # i /\ items[j].status = "in_stock"
        /\ items[j].productName = items[i].productName
        /\ items[j].purchasePrice = items[i].purchasePrice
        /\ items[j].condition = items[i].condition
        /\ getItemBatchRef(items[j], itemBatchMap) = getItemBatchRef(items[i], itemBatchMap) }

InStockIds(table) == { id \in DOMAIN table : table[id].status = "in_stock" }

\* C18: returning a sold item to stock when an in_stock lot matches it
\* increases the quantity of one matching lot by the returned amount and
\* deletes the sold item; no lot is created and nothing else changes.
C18_ReturnMergesIntoLot ==
    [][ \A i \in 1..Len(items) : \A quantity \in 1..MaxQuantity :
            (MatchingLots(i) # {} /\ Returns(i, quantity))
               => /\ items[i].id \in DOMAIN db /\ items[i].id \notin DOMAIN db'
                  /\ \E j \in MatchingLots(i) :
                        /\ db'[items[j].id] = [db[items[j].id] EXCEPT !.quantity = @ + quantity]
                        /\ \A id \in DOMAIN db \ {items[i].id, items[j].id} : db'[id] = db[id]
                  /\ InStockIds(db') = InStockIds(db) ]_vars

\* the sold unit of the second record has been returned into the lot of two
C18_Witness ==
    /\ DOMAIN db = {1} /\ nextId = 3
    /\ db[1].status = "in_stock" /\ db[1].quantity = 3
    /\ Len(items) = 1 /\ items[1].quantity = 3

\* C19 as stated: in every reachable state of the store an item has a
\* saleDate iff its status is sold; a sold item returned to stock in place
\* is in_stock with no saleDate in its stored record.
C19_SaleDateIffSold ==
    \A id \in DOMAIN db : (db[id].sale_date # NoNumber) <=> (db[id].status = "sold")

(***************************************************************************)
(* The edit form and the board together: the session of SpecSale on a      *)
(* store without batch references, with a working batch to send.           *)
(***************************************************************************)
InitStock ==
    /\ db \in { table \in SaleTables :
                  \A id \in DOMAIN table : /\ table[id].batch_ref = Null
                                           /\ table[id].purchase_price = 3 }
    /\ dbBatches = <<>>
    /\ schema = OptionalColumns
    /\ nextId = Len(db) + 1
    /\ now = MaxTime - 2
    /\ lsHistory = NoEntry /\ lsItems = NoEntry
    /\ \E order \in DateOrders(db) : items = getItems(db, order)
    /\ itemBatchMap = <<>>
    /\ activeTab = "dashboard" /\ history = <<>>
    /\ batchItems = <<SavedSellLine>> /\ batchTotalPaid = 4 /\ alert = Null /\ parked = NoSession

NextStock ==
    \/ NextSale
    \/ \E tab \in {"dashboard", "pricing"} : selectTab(tab, NoFailure)
    \/ sendBatchToStock(0, NoFailure)

SpecStock == InitStock /\ [][NextStock]_vars

\* C20: after any sequence of create, edit, sale, return and
\* send-batch-to-stock operations every item in the store has an integer
\* quantity of at least 1: a lot a sale leaves nothing of is deleted, not
\* stored with quantity 0.
C20_QuantityAtLeastOne ==
    \A id \in DOMAIN db : db[id].quantity \in Nat /\ db[id].quantity >= 1

\* a lot of the sent batch and a lot sold out: the store has the batch's lot
\* and a sold record, and the lot the sale emptied is gone
C20_Witness ==
    /\ dbBatches # <<>>
    /\ \E id \in DOMAIN db : db[id].status = "in_stock" /\ db[id].batch_ref # Null
    /\ \E id \in DOMAIN db :
          /\ db[id].status = "sold" /\ db[id].created_at > 1
          /\ db[id].sale_price = db[id].purchase_price
          /\ \A lot \in DOMAIN db : db[lot].status = "in_stock" => db[lot].batch_ref # Null
    /\ 1 \notin DOMAIN db

(***************************************************************************)
(* Batch references: a session on the pricing tab whose batch map and      *)
(* whose items' own references may disagree (the map is local to the       *)
(* browser, the items' references are in the store), with one record in    *)
(* the history and a working batch to send.                                *)
(***************************************************************************)
RefCodes == {BatchCode(1), BatchCode(2)}

\* the record of a batch of one sell line item
RefRecord(id, batchCode) ==
    [id |-> id, batchCode |-> batchCode, batchType |-> "venta", createdAt |-> 1,
     totalPaid |-> 6, totalSellRevenue |-> 10, cashProfit |-> FromInt(4),
     retainedValue |-> FZero, itemsCount |-> 1, items |-> <<SavedSellLine>>]

\* the batch maps localStorage may hold for the items 1 and 2
RefMaps ==
    { map \in UNION { [ids -> RefCodes] : ids \in SUBSET {1, 2} } :
        2 \in DOMAIN map => map[2] = BatchCode(1) }

\* the form startEdit or onSell opens on the item, saved with either status
RefForms(item) == { formData \in EditForms(item) : formData.quantity = 1 }

InitRef ==
    /\ \E lotRef \in {Null} \cup RefCodes, soldRef \in {Null, BatchCode(2)} :
          db = <<SaleRow(1, 3, 2, "in_stock", lotRef),
                 [SaleRow(2, 3, 1, "sold", soldRef) EXCEPT !.date = 0]>>
    /\ dbBatches = <<RefRecord(3, BatchCode(1))>>
    /\ history = dbBatches
    /\ lsHistory = Stored(dbBatches)
    /\ schema = OptionalColumns
    /\ nextId = 4
    /\ now = MaxTime - 2
    /\ lsItems = NoEntry
    /\ \E order \in DateOrders(db) : items = getItems(db, order)
    /\ itemBatchMap \in RefMaps
    /\ activeTab = "pricing"
    /\ batchItems = <<SavedSellLine>> /\ batchTotalPaid = 6 /\ alert = Null /\ parked = NoSession

NextRef ==
    \/ \E i \in 1..Len(items) : \E formData \in RefForms(items[i]) :
          handleSaveItem_edit(i, formData, 0, NoFailure)
    \/ sendBatchToStock(0, NoFailure)
    \/ \E r \in 1..Len(history) : deleteBatchRecord(r, 0, NoFailure)

SpecRef == InitRef /\ [][NextRef]_vars

(***************************************************************************)
(* Claims about batch references (checked under SpecRef).                  *)
(***************************************************************************)
\* the item's own batchRef when it has one, the batch map's entry otherwise
C21_Resolved(item) ==
    IF item.batchRef # Null THEN item.batchRef
    ELSE IF item.id \in DOMAIN itemBatchMap THEN itemBatchMap[item.id] ELSE Null

\* the lots of the snapshot a line item or a returned item may merge into,
\* but for the batch reference
C21_Lots(productName, condition, purchasePrice, but) ==
    { j \in 1..Len(items) :
        /\ items[j].id # but /\ items[j].status = "in_stock"
        /\ items[j].productName = productName
        /\ items[j].condition = condition
        /\ items[j].purchasePrice = purchasePrice }

\* C21: wherever a batch reference is resolved for an item, the item's own
\* batchRef is used when present and the batch map's entry only when the
\* item has none: a delete of a record removes exactly the items of the
\* snapshot so resolved to its code; a send merges a line item into a lot
\* iff the lot so resolves to the new code; a return merges into a lot iff
\* the lot so resolves to the returned item's reference; and the edit form
\* opens on the item with the reference so resolved, which a sale gives to
\* the sold record.
C21_OwnRefBeforeMap ==
    [][ /\ \A r \in 1..Len(history) :
              (alert' = AlertDeleteOk(history[r].batchCode) /\ deleteBatchRecord(r, 0, NoFailure))
                 => \A i \in 1..Len(items) :
                       (items[i].id \notin DOMAIN db')
                          <=> (C21_Resolved(items[i]) = history[r].batchCode)
        /\ (batchItems # <<>> /\ alert' = AlertSendOk /\ sendBatchToStock(0, NoFailure))
              => LET code == BatchCode(Len(history) + 1)
                     line == batchItems[1]
                     lots == { j \in C21_Lots(line.productName, line.condition, 3, 0) :
                                 C21_Resolved(items[j]) = code }
                 IN  IF lots # {}
                     THEN /\ DOMAIN db' = DOMAIN db
                          /\ \E j \in lots :
                                db'[items[j].id].quantity = items[j].quantity + line.quantity
                     ELSE /\ Cardinality(DOMAIN db' \ DOMAIN db) = 1
                          /\ \A id \in DOMAIN db : db'[id] = db[id]
        /\ \A i \in 1..Len(items) :
              /\ (alert' = Null /\ now' # now /\ Returns(i, 1))
                    => ((items[i].id \notin DOMAIN db')
                          <=> \E j \in C21_Lots(items[i].productName, items[i].condition,
                                                items[i].purchasePrice, items[i].id) :
                                 C21_Resolved(items[j]) = C21_Resolved(items[i]))
              /\ (alert' = Null /\ now' # now /\ Sells(i, 1))
                    => \A id \in DOMAIN db' \ DOMAIN db :
                          db'[id].batch_ref = C21_Resolved(items[i]) ]_vars

\* the record T-001 has been deleted and the lot whose own reference is T-002
\* is still in the store, although the batch map files it under T-001
C21_Witness ==
    /\ alert = AlertDeleteOk(BatchCode(1))
    /\ dbBatches = <<>> /\ history = <<>>
    /\ 1 \in DOMAIN db /\ db[1].batch_ref = BatchCode(2)
    /\ 1 \in DOMAIN itemBatchMap /\ itemBatchMap[1] = BatchCode(1)
    /\ \E i \in 1..Len(items) : items[i].id = 1 /\ items[i].batchRef = BatchCode(2)

(***************************************************************************)
(* Two browsers on one store.  Each has its own localStorage and its own   *)
(* Dashboard; one is in front and runs its handlers, the other is parked   *)
(* with the state it had when it was last in front.  A handler runs to its *)
(* end before the other browser's next one starts.                         *)
(***************************************************************************)
\* what belongs to the browser in front
Session ==
    [lsHistory |-> lsHistory, lsItems |-> lsItems,
     items |-> items, itemBatchMap |-> itemBatchMap,
     activeTab |-> activeTab, history |-> history,
     batchItems |-> batchItems, batchTotalPaid |-> batchTotalPaid, alert |-> alert]

\* the other browser comes to the front
switchSession ==
    /\ parked # NoSession
    /\ parked' = Session
    /\ lsHistory' = parked.lsHistory /\ lsItems' = parked.lsItems
    /\ items' = parked.items /\ itemBatchMap' = parked.itemBatchMap
    /\ activeTab' = parked.activeTab /\ history' = parked.history
    /\ batchItems' = parked.batchItems /\ batchTotalPaid' = parked.batchTotalPaid
    /\ alert' = parked.alert
    /\ UNCHANGED storeVars

\* Both browsers have loaded the store (one lot of three units or nothing,
\* no batch) and have the pricing tab open with a batch to send.
InitTwo ==
    /\ db \in { <<>>, <<SaleRow(1, 3, 3, "in_stock", Null)>> }
    /\ dbBatches = <<>>
    /\ schema = OptionalColumns
    /\ nextId = Len(db) + 1
    /\ now = MaxTime - 2
    /\ lsHistory = NoEntry /\ lsItems = NoEntry
    /\ items = getItems(db, [i \in 1..Len(db) |-> i])
    /\ itemBatchMap = <<>>
    /\ activeTab = "pricing" /\ history = <<>>
    /\ batchItems = <<SavedSellLine>> /\ batchTotalPaid = 6 /\ alert = Null
    /\ parked = Session

\* the form onSell opens on the lot, with the quantity the user sets
SellForms(item) ==
    { formData \in EditForms(item) : formData.status = "sold" /\ item.status = "in_stock" }

NextTwo ==
    \/ switchSession
    \/ sendBatchToStock(0, NoFailure)
    \/ \E i \in 1..Len(items) : \E formData \in SellForms(items[i]) :
          handleSaveItem_edit(i, formData, 0, NoFailure)
    \/ \E tab \in {"dashboard", "pricing"} : selectTab(tab, NoFailure)

SpecTwo == InitTwo /\ [][NextTwo]_vars

(***************************************************************************)
(* Claims about two sessions (checked under SpecTwo).                      *)
(***************************************************************************)
\* C22: two sessions that each send a batch to stock after loading a batch
\* history of the same length can persist two distinct BatchRecords with the
\* same batchCode: a send persists one more record under the code made from
\* the length of the session's own history, whatever codes the records of
\* the store carry.
C22_CodeFromOwnHistory ==
    [][ (batchItems # <<>> /\ alert' = AlertSendOk /\ sendBatchToStock(0, NoFailure))
           => /\ Len(dbBatches') = Len(dbBatches) + 1
              /\ dbBatches'[1].batchCode = BatchCode(Len(history) + 1)
              /\ \A r \in 1..Len(dbBatches) : dbBatches'[r + 1] = dbBatches[r] ]_vars

\* both sessions have sent their batch from an empty history: the store has
\* two records, of different ids, with the code T-001
C22_Witness ==
    /\ Len(dbBatches) = 2
    /\ dbBatches[1].id # dbBatches[2].id
    /\ dbBatches[1].batchCode = BatchCode(1) /\ dbBatches[2].batchCode = BatchCode(1)
    /\ parked # NoSession /\ Len(parked.history) = 1 /\ Len(history) = 1

\* C23: when two sessions sell from the same lot starting from the same
\* loaded snapshot, each partial sale writes the lot's quantity as the
\* snapshot's quantity less its own sold quantity, whatever the store holds
\* by then, and adds its sold record to the ones already there: the last
\* write wins.
C23_LastWriteWins ==
    [][ \A i \in 1..Len(items) : \A quantity \in 1..MaxQuantity :
            (/\ quantity < items[i].quantity
             /\ items[i].id \in DOMAIN db
             /\ alert' = Null /\ now' # now
             /\ Sells(i, quantity))
               => /\ db'[items[i].id].quantity = items[i].quantity - quantity
                  /\ OneNewSoldItem(quantity)
                  /\ \A id \in DOMAIN db \ {items[i].id} : db'[id] = db[id] ]_vars

\* both sessions have sold from the lot of three units they had loaded, one
\* unit and then two: the lot is left with one unit, as the second sale
\* wrote it, and both sold records are in the store
C23_Witness ==
    /\ DOMAIN db = {1, 2, 3}
    /\ db[1].status = "in_stock" /\ db[1].quantity = 1
    /\ db[2].status = "sold" /\ db[2].quantity = 1
    /\ db[3].status = "sold" /\ db[3].quantity = 2

(***************************************************************************)
(* The edit form when store calls fail: the session of SpecSale on a lot   *)
(* of two units, alone or with a sold record, where the first or the       *)
(* second store call of a save may fail (the reload after it does not).    *)
(***************************************************************************)
InitFail ==
    /\ db \in { table \in SaleTables :
                  /\ table # <<>> /\ table[1].quantity = 2
                  /\ \A id \in DOMAIN table : table[id].batch_ref = Null }
    /\ dbBatches = <<>>
    /\ schema = OptionalColumns
    /\ nextId = Len(db) + 1
    /\ now = MaxTime - 2
    /\ lsHistory = NoEntry /\ lsItems = NoEntry
    /\ \E order \in DateOrders(db) : items = getItems(db, order)
    /\ itemBatchMap = <<>>
    /\ activeTab = "dashboard" /\ history = <<>>
    /\ batchItems = <<>> /\ batchTotalPaid = 0 /\ alert = Null /\ parked = NoSession

NextFail ==
    \E i \in 1..Len(items) : \E formData \in EditForms(items[i]) :
        \E fail \in 0..2 : handleSaveItem_edit(i, formData, fail, NoFailure)

SpecFail == InitFail /\ [][NextFail]_vars

\* the user saves the form on items[i] as a sale of the quantity, and the
\* store call that discounts the lot fails
SellsHalf(i, quantity) ==
    /\ items[i].status = "in_stock"
    /\ \E formData \in EditForms(items[i]) :
          /\ formData.status = "sold" /\ formData.quantity = quantity
          /\ handleSaveItem_edit(i, formData, 2, NoFailure)

\* C24: a sale writes in sequence without rollback: when creating the sold
\* record succeeds and the decrement or delete of the lot that follows
\* fails, the sold record stays in the store and the lot keeps its
\* quantity; the user is told of the failure and the item list is reloaded
\* from the store.
C24_SaleWithoutRollback ==
    [][ \A i \in 1..Len(items) : \A quantity \in 1..MaxQuantity :
            (/\ quantity <= items[i].quantity
             /\ alert' = AlertSaveError
             /\ SellsHalf(i, quantity))
               => /\ OneNewSoldItem(quantity)
                  /\ \A id \in DOMAIN db : id \in DOMAIN db' /\ db'[id] = db[id]
                  /\ \E order \in DateOrders(db') : items' = getItems(db', order) ]_vars

\* the sale of the whole lot of two units has failed half-way: the lot is
\* still there with its two units, next to the sold record of two units,
\* and the list shows both
C24_Witness ==
    /\ alert = AlertSaveError
    /\ DOMAIN db = {1, 2}
    /\ db[1].status = "in_stock" /\ db[1].quantity = 2
    /\ db[2].status = "sold" /\ db[2].quantity = 2 /\ db[2].created_at > 1
    /\ Len(items) = 2

(***************************************************************************)
(* Legacy data: a browser that holds items and a batch history from the    *)
(* time before the store opens the Dashboard on an empty store; the        *)
(* inventory is loaded (on mount and after handlers) and the user may      *)
(* press "Sincronizar"; any store call of either may fail.                 *)
(***************************************************************************)
\* an item as the earlier version kept it in 'items_v1', with its local id
LegacyItem(id, productName) ==
    [id |-> id, productName |-> productName, purchasePrice |-> 3, salePrice |-> NoNumber,
     quantity |-> 1, date |-> 1, saleDate |-> NoNumber, status |-> "in_stock",
     condition |-> Null, batchRef |-> Null]

LegacyItems == << LegacyItem(101, <<"a">>), LegacyItem(102, <<"b">>) >>

\* the local history, newest first: two batches of one kept line item
LegacyHistory ==
    << [id |-> 202, batchCode |-> BatchCode(2), batchType |-> "retenido", createdAt |-> 1,
        totalPaid |-> 4, itemsCount |-> 1, items |-> <<SavedKeepLine>>],
       [id |-> 201, batchCode |-> BatchCode(1), batchType |-> "retenido", createdAt |-> 1,
        totalPaid |-> 4, itemsCount |-> 1, items |-> <<SavedKeepLine>>] >>

InitMigrate ==
    /\ db = <<>> /\ dbBatches = <<>> /\ schema = OptionalColumns
    /\ nextId = 1 /\ now = 1
    /\ lsItems \in { NoEntry, Stored(SubSeq(LegacyItems, 1, 1)), Stored(LegacyItems) }
    /\ lsHistory \in { NoEntry, Stored(SubSeq(LegacyHistory, 2, 2)), Stored(LegacyHistory) }
    /\ items = <<>> /\ itemBatchMap = <<>>
    /\ activeTab = "dashboard" /\ history = <<>>
    /\ batchItems = <<>> /\ batchTotalPaid = 0 /\ alert = Null /\ parked = NoSession

NextMigrate ==
    \/ \E order \in DateOrders(LoadedStore(World, NoFailure, now, schema).db) \cup DateOrders(db),
          fail \in LoadFailures : loadItems(order, fail)
    \/ \E fail \in 0..(Len(LegacyHistory) + 1) : handleMigrateLocalData(fail, NoFailure)

SpecMigrate == InitMigrate /\ [][NextMigrate]_vars

\* C25 as stated: across any sequence of loads and manual migrations,
\* including ones in which a store call fails part-way, each local item and
\* each record of the local history is created in the store at most once,
\* and the migrated items have ids the store has assigned, not their local
\* ids.
C25_MigratedOnce ==
    /\ \A r1, r2 \in 1..Len(dbBatches) :
          dbBatches[r1].batchCode = dbBatches[r2].batchCode => r1 = r2
    /\ \A id1, id2 \in DOMAIN db : db[id1].product_name = db[id2].product_name => id1 = id2
    /\ \A id \in DOMAIN db :
          /\ id < nextId
          /\ \A i \in 1..Len(LegacyItems) : LegacyItems[i].id # id

(***************************************************************************)
(* Claims about the working batch's editors (checked under SpecAlloc).     *)
(***************************************************************************)
\* C26 as stated: in every state of the working batch reachable by adding
\* line items, toggling a line item's disposition and editing its unit sale
\* price, a line item with disposition keep has unitSalePrice 0.
C26_KeptHasNoSalePrice ==
    \A i \in 1..Len(batchItems) :
        normalizedItems[i].disposition = "keep" => batchItems[i].unitSalePrice = 0

(***************************************************************************)
(* The board alone in one session: batches of one line item are added,     *)
(* sent to stock and deleted on an empty store, three sends before the     *)
(* clock runs out.                                                         *)
(***************************************************************************)
InitCodes ==
    /\ db = <<>> /\ dbBatches = <<>> /\ schema = OptionalColumns
    /\ nextId = 1 /\ now = MaxTime - 3
    /\ lsHistory = NoEntry /\ lsItems = NoEntry
    /\ items = <<>> /\ itemBatchMap = <<>>
    /\ activeTab = "pricing" /\ history = <<>>
    /\ batchItems = <<>> /\ batchTotalPaid = 4 /\ alert = Null /\ parked = NoSession

NextCodes ==
    \/ \E d \in Dispositions : batchItems = <<>> /\ addItem(<<"a">>, 1, 3, 2, d)
    \/ sendBatchToStock(0, NoFailure)
    \/ \E r \in 1..Len(history) : deleteBatchRecord(r, 0, NoFailure)

SpecCodes == InitCodes /\ [][NextCodes]_vars

\* C27 as stated: within a single session, after any sequence of successful
\* sends to stock and deletes of batches, no two BatchRecords of the history
\* have the same batchCode.
C27_CodesUniqueInSession ==
    \A r1, r2 \in 1..Len(history) :
        history[r1].batchCode = history[r2].batchCode => r1 = r2

(***************************************************************************)
(* Claims about the units in the store (checked under SpecSale).           *)
(***************************************************************************)
\* the units of the rows with the given ids
RECURSIVE UnitsOf(_, _)
UnitsOf(table, ids) ==
    IF ids = {} THEN 0
    ELSE LET id == CHOOSE x \in ids : TRUE
         IN  table[id].quantity + UnitsOf(table, ids \ {id})

TotalUnits(table) == UnitsOf(table, DOMAIN table)

\* C28 as stated: sales and returns conserve units: after a successful
\* in_stock->sold sale or sold->in_stock return (merged or in place), for
\* every quantity the edit form may carry, the total quantity over all
\* stored items of both statuses is what it was before.
C28_UnitsConserved ==
    [][ \A i \in 1..Len(items) : \A quantity \in 1..MaxQuantity :
            (alert' = Null /\ (Sells(i, quantity) \/ Returns(i, quantity)))
               => TotalUnits(db') = TotalUnits(db) ]_vars

(***************************************************************************)
(* Claims about the units a send adds (checked under Spec).                *)
(***************************************************************************)
\* the in_stock rows whose batch reference, resolved with the map, is the code
C29_LotsOf(table, map, code) ==
    { id \in DOMAIN table :
        /\ table[id].status = "in_stock"
        /\ (IF mapFromDb(table[id]).batchRef # Null THEN mapFromDb(table[id]).batchRef
            ELSE IF id \in DOMAIN map THEN map[id] ELSE Null) = code }

\* C29 as stated: after a successful send to stock the total quantity of
\* the in_stock items whose resolved batch reference is the new batchCode
\* has increased by exactly the sum of the quantities of the batch's sell
\* line items, also when several line items match the same lot of the
\* inventory snapshot.
C29_SendAddsSoldUnits ==
    [][ \A loadFail \in RefreshFailures :
            (batchItems # <<>> /\ alert' = AlertSendOk /\ sendBatchToStock(0, loadFail))
               => LET code == BatchCode(Len(history) + 1)
                  IN  UnitsOf(db', C29_LotsOf(db', itemBatchMap', code))
                         = UnitsOf(db, C29_LotsOf(db, itemBatchMap, code))
                              + SumInts([i \in 1..Len(SellLines) |-> SellLines[i].quantity])
      ]_vars

(***************************************************************************)
(* A store of an earlier schema: the items table may lack item_condition,  *)
(* batch_ref or both.  One session starts on the empty store with a batch  *)
(* to send, makes items by hand, edits them and sends the batch; no store  *)
(* call fails for any other reason.                                        *)
(***************************************************************************)
InitSchema ==
    /\ db = <<>> /\ dbBatches = <<>>
    /\ schema \in SUBSET OptionalColumns
    /\ nextId = 1 /\ now = MaxTime - 2
    /\ lsHistory = NoEntry /\ lsItems = NoEntry
    /\ items = <<>> /\ itemBatchMap = <<>>
    /\ activeTab = "pricing" /\ history = <<>>
    /\ batchItems = <<SavedSellLine>> /\ batchTotalPaid = 4 /\ alert = Null /\ parked = NoSession

NextSchema ==
    \/ \E formData \in NewForms : handleSaveItem_new(formData, FALSE, NoFailure)
    \/ \E i \in 1..Len(items) : \E formData \in RefForms(items[i]) :
          handleSaveItem_edit(i, formData, 0, NoFailure)
    \/ sendBatchToStock(0, NoFailure)

SpecSchema == InitSchema /\ [][NextSchema]_vars

\* C30 as stated: when the store rejects a create or an update because
\* optional columns (item_condition, batch_ref) are missing, the item
\* service retries without them and the operation succeeds whenever the
\* store accepts the payload without the missing optional columns, also
\* when both are missing at once: with no other cause of failure, the
\* handlers' creates and updates all succeed.
C30_RetriesSucceed ==
    [][ /\ (batchItems # <<>> /\ sendBatchToStock(0, NoFailure)) => alert' = AlertSendOk
        /\ \A formData \in NewForms :
              handleSaveItem_new(formData, FALSE, NoFailure) => alert' = Null
        /\ \A i \in 1..Len(items) : \A formData \in RefForms(items[i]) :
              handleSaveItem_edit(i, formData, 0, NoFailure) => alert' # AlertSaveError ]_vars

====
